---- MODULE Spec2Model ----
(***************************************************************************)
(* Model of repocraft-server-go: the Git SSH / Smart HTTP gateway.         *)
(*                                                                         *)
(* Strings are sequences of one-character strings, so that the trimming,   *)
(* splitting, cleaning and prefix tests of the Go code are computed and    *)
(* not assumed.  The path functions are those of a Unix build              *)
(* (os.PathSeparator = '/', filepath.ToSlash/FromSlash leave a path as it  *)
(* is).                                                                    *)
(***************************************************************************)
EXTENDS Integers, Sequences, FiniteSets, TLC

(***************************************************************************)
(* strings                                                                 *)
(***************************************************************************)
Slash == <<"/">>
Dot == <<".">>
DotDot == <<".", ".">>
Empty == <<>>

\* unicode.IsSpace, on the characters the model draws
IsSpace(c) == c \in {" ", "\t"}

\* the cutset "\"'" of strings.Trim in ParseSSHCommand and resolveRepoPath
IsQuote(c) == c \in {"'", "\""}

HasPrefix(s, p) == Len(s) >= Len(p) /\ SubSeq(s, 1, Len(p)) = p

HasSuffix(s, p) == Len(s) >= Len(p) /\ SubSeq(s, Len(s) - Len(p) + 1, Len(s)) = p

TrimPrefix(s, p) == IF HasPrefix(s, p) THEN SubSeq(s, Len(p) + 1, Len(s)) ELSE s

TrimSuffix(s, p) == IF HasSuffix(s, p) THEN SubSeq(s, 1, Len(s) - Len(p)) ELSE s

RECURSIVE TrimLeftSpace(_)
TrimLeftSpace(s) ==
    IF s # <<>> /\ IsSpace(Head(s)) THEN TrimLeftSpace(Tail(s)) ELSE s

RECURSIVE TrimRightSpace(_)
TrimRightSpace(s) ==
    IF s # <<>> /\ IsSpace(s[Len(s)]) THEN TrimRightSpace(SubSeq(s, 1, Len(s) - 1)) ELSE s

TrimSpace(s) == TrimRightSpace(TrimLeftSpace(s))

RECURSIVE TrimLeftQuotes(_)
TrimLeftQuotes(s) ==
    IF s # <<>> /\ IsQuote(Head(s)) THEN TrimLeftQuotes(Tail(s)) ELSE s

RECURSIVE TrimRightQuotes(_)
TrimRightQuotes(s) ==
    IF s # <<>> /\ IsQuote(s[Len(s)]) THEN TrimRightQuotes(SubSeq(s, 1, Len(s) - 1)) ELSE s

\* strings.Trim(s, "\"'")
TrimQuotes(s) == TrimRightQuotes(TrimLeftQuotes(s))

\* strings.Fields: the maximal runs of non-space characters, in order
RECURSIVE FieldsFrom(_, _, _)
FieldsFrom(s, cur, out) ==
    IF s = <<>>
    THEN IF cur = <<>> THEN out ELSE Append(out, cur)
    ELSE IF IsSpace(Head(s))
         THEN FieldsFrom(Tail(s), <<>>, IF cur = <<>> THEN out ELSE Append(out, cur))
         ELSE FieldsFrom(Tail(s), Append(cur, Head(s)), out)

Fields(s) == FieldsFrom(s, <<>>, <<>>)

\* the elements of a path between its separators (empty ones included)
RECURSIVE SplitFrom(_, _, _)
SplitFrom(s, cur, out) ==
    IF s = <<>>
    THEN Append(out, cur)
    ELSE IF Head(s) = "/"
         THEN SplitFrom(Tail(s), <<>>, Append(out, cur))
         ELSE SplitFrom(Tail(s), Append(cur, Head(s)), out)

SplitSlash(s) == SplitFrom(s, <<>>, <<>>)

RECURSIVE JoinSlash(_)
JoinSlash(segs) ==
    IF segs = <<>> THEN <<>>
    ELSE IF Len(segs) = 1 THEN segs[1]
    ELSE segs[1] \o Slash \o JoinSlash(Tail(segs))

(***************************************************************************)
(* path/filepath                                                           *)
(***************************************************************************)
\* filepath.Clean's pass over the elements: "" and "." are dropped, ".."
\* removes the element before it, is dropped at the top of a rooted path
\* and is kept at the front of a relative one
RECURSIVE CleanSegs(_, _, _)
CleanSegs(segs, rooted, out) ==
    IF segs = <<>> THEN out
    ELSE LET h == Head(segs)
             t == Tail(segs)
         IN  IF h = <<>> \/ h = Dot THEN CleanSegs(t, rooted, out)
             ELSE IF h = DotDot
                  THEN IF out # <<>> /\ out[Len(out)] # DotDot
                       THEN CleanSegs(t, rooted, SubSeq(out, 1, Len(out) - 1))
                       ELSE IF rooted THEN CleanSegs(t, rooted, out)
                            ELSE CleanSegs(t, rooted, Append(out, h))
                  ELSE CleanSegs(t, rooted, Append(out, h))

Clean(p) ==
    IF p = <<>> THEN Dot
    ELSE LET rooted == Head(p) = "/"
             st == CleanSegs(SplitSlash(p), rooted, <<>>)
         IN  IF rooted THEN Slash \o JoinSlash(st)
             ELSE IF st = <<>> THEN Dot ELSE JoinSlash(st)

\* filepath.Join(a, b): the non-empty leading element on, joined and cleaned
Join(a, b) ==
    IF a # <<>> THEN Clean(a \o Slash \o b)
    ELSE IF b # <<>> THEN Clean(b)
    ELSE <<>>

\* the working directory of the server process
Cwd == <<"/", "w", "/", "d">>

\* filepath.Abs: a relative path is joined onto the working directory
Abs(p) == IF p # <<>> /\ Head(p) = "/" THEN Clean(p) ELSE Join(Cwd, p)

\* filepath.ToSlash / filepath.FromSlash where the separator is '/'
ToSlash(p) == p

FromSlash(p) == p

(***************************************************************************)
(* service: protocol.go, request.go, ssh_parser.go                         *)
(***************************************************************************)
ServiceUploadPack == <<"g", "i", "t", "-", "u", "p", "l", "o", "a", "d", "-", "p", "a", "c", "k">>

ServiceReceivePack == <<"g", "i", "t", "-", "r", "e", "c", "e", "i", "v", "e", "-", "p", "a", "c", "k">>

\* the value of a nil error
Nil == "nil"

\* Service.Command
Command(s) == s

\* Service.IsSupported
IsSupported(s) == s = ServiceUploadPack \/ s = ServiceReceivePack

\* ServiceRequest{}
ZeroRequest == [Service |-> <<>>, RepoPath |-> <<>>]

\* ServiceRequest.Validate
Validate(r) ==
    IF ~IsSupported(r.Service) THEN "unsupported service"
    ELSE IF r.RepoPath = <<>> THEN "missing repository path"
    ELSE Nil

\* ParseSSHCommand without its call of Validate
ParseSSHCommandNoValidate(command) ==
    LET raw == TrimSpace(command)
        parts == Fields(raw)
    IN  IF raw = <<>> THEN [req |-> ZeroRequest, err |-> "empty command"]
        ELSE IF Len(parts) < 2 THEN [req |-> ZeroRequest, err |-> "invalid command"]
        ELSE [req |-> [Service |-> parts[1], RepoPath |-> TrimQuotes(parts[2])], err |-> Nil]

\* ParseSSHCommand: the request and the error it returns
ParseSSHCommand(command) ==
    LET raw == TrimSpace(command)
        parts == Fields(raw)
    IN  IF raw = <<>> THEN [req |-> ZeroRequest, err |-> "empty command"]
        ELSE IF Len(parts) < 2 THEN [req |-> ZeroRequest, err |-> "invalid command"]
        ELSE LET r == [Service |-> parts[1], RepoPath |-> TrimQuotes(parts[2])]
                 e == Validate(r)
             IN  IF e # Nil THEN [req |-> ZeroRequest, err |-> e]
                 ELSE [req |-> r, err |-> Nil]

(***************************************************************************)
(* path confinement: ensureWithinRoot (both transports), resolveRepoPath   *)
(* (SSH), pathClean and repoPathFromURL (HTTP)                             *)
(***************************************************************************)
\* ensureWithinRoot: nil, or the traversal error
ensureWithinRoot(root, full) ==
    LET rootClean == Clean(root)
        fullClean == Clean(full)
    IN  IF rootClean = fullClean THEN Nil
        ELSE IF ~HasPrefix(fullClean, rootClean \o Slash) THEN "path traversal"
        ELSE Nil

\* Server.resolveRepoPath of the SSH transport
resolveRepoPath(root, raw) ==
    LET c1 == TrimSpace(raw)
        c2 == TrimQuotes(c1)
        c3 == ToSlash(Clean(c2))
        cleaned == TrimPrefix(c3, Slash)
    IN  IF cleaned = <<>> \/ cleaned = Dot THEN [full |-> <<>>, err |-> "empty path"]
        ELSE LET full == Join(root, FromSlash(cleaned))
                 e == ensureWithinRoot(root, full)
             IN  IF e # Nil THEN [full |-> <<>>, err |-> e]
                 ELSE [full |-> full, err |-> Nil]

\* pathClean of the HTTP transport
pathClean(p) ==
    LET p1 == TrimPrefix(p, Slash)
        p2 == TrimSuffix(p1, Slash)
        p3 == ToSlash(Clean(p2))
    IN  IF p3 = Dot THEN Slash ELSE Slash \o p3

\* Server.repoPathFromURL
repoPathFromURL(prefix) ==
    LET cleaned == pathClean(prefix)
    IN  IF cleaned = <<>> \/ cleaned = Slash
        THEN [path |-> <<>>, err |-> "invalid repository path"]
        ELSE [path |-> cleaned, err |-> Nil]

\* parseServiceParam
parseServiceParam(raw) ==
    IF raw = ServiceUploadPack THEN [svc |-> ServiceUploadPack, err |-> Nil]
    ELSE IF raw = ServiceReceivePack THEN [svc |-> ServiceReceivePack, err |-> Nil]
    ELSE [svc |-> <<>>, err |-> "unsupported service"]

\* the path runStatelessRPC joins onto the root
rpcRepoFull(root, repoPath) == Join(root, FromSlash(TrimPrefix(repoPath, Slash)))

\* ServiceExecutor.resolveBinary, with the binary overrides left empty as in
\* cmd/gitsshd and cmd/githttpd
resolveBinary(service) ==
    IF service = ServiceUploadPack THEN [bin |-> Command(ServiceUploadPack), err |-> Nil]
    ELSE IF service = ServiceReceivePack THEN [bin |-> Command(ServiceReceivePack), err |-> Nil]
    ELSE [bin |-> <<>>, err |-> "unsupported service"]

(***************************************************************************)
(* Bounds and the inputs drawn within them                                 *)
(***************************************************************************)
\* the most path elements a client-supplied path has
MaxSegs == 3

\* the path elements clients build paths from
Segs == {<<>>, Dot, DotDot, <<"r">>, <<"r", "-">>}

\* the client-supplied paths: up to MaxSegs elements joined by '/'
ClientPaths == {JoinSlash(q) : q \in UNION {[1..k -> Segs] : k \in 1..MaxSegs}}

\* the configured repository roots: absolute, relative, and the parent
\* directory
Roots == {<<"/", "r">>, <<"r">>, DotDot}

\* a service name outside the supported set
OtherService == <<"g", "i", "t">>

ServiceWords == {ServiceUploadPack, ServiceReceivePack, OtherService}

\* the raw commands of SSH sessions: <service> <path>, the path bare or in
\* single quotes, and the commands of fewer than two fields
SshCommands ==
    {w \o <<" ">> \o q \o p \o q : w \in ServiceWords, q \in {<<>>, <<"'">>}, p \in ClientPaths}
        \cup {<<>>, <<" ">>, ServiceUploadPack}

InfoRefsSuffix == <<"/", "i", "n", "f", "o", "/", "r", "e", "f", "s">>

\* the suffixes ServeHTTP dispatches on, and one it does not know
RouteSuffixes == {InfoRefsSuffix, Slash \o ServiceUploadPack, Slash \o ServiceReceivePack, <<"/", "x">>}

Methods == {"GET", "POST"}

\* the URL paths of HTTP requests: a route suffix alone, or after '/' and a
\* client path
UrlPaths == {pre \o suf : pre \in {<<>>} \cup {Slash \o p : p \in ClientPaths}, suf \in RouteSuffixes}

\* the service query parameters; only /info/refs reads the parameter
QueryServices(path) ==
    IF HasSuffix(path, InfoRefsSuffix) THEN ServiceWords ELSE {<<>>}

(***************************************************************************)
(* One request at a time through a transport handler.                      *)
(*   RepoRoot  Server.RepoRoot                                             *)
(*   rq        the request: an SSH session's raw command, or an HTTP       *)
(*             request's method, URL path and service parameter            *)
(*   pc        the handler's position                                      *)
(*   loc       the handler's locals                                        *)
(*   checked   the checks the handler has passed for this request          *)
(*   out       what the handler has done so far, in order: writes to the   *)
(*             session's stderr, exit statuses, os.Stat calls, spawned     *)
(*             subprocesses, HTTP statuses, headers and body writes, log   *)
(*             lines                                                       *)
(***************************************************************************)
VARIABLES RepoRoot, rq, pc, loc, checked, out

reqVars == <<RepoRoot, rq, pc, loc, checked, out>>

(***************************************************************************)
(* The SSH server's life: Server.ListenAndServe, the library's serving     *)
(* goroutine, the sessions and the drain counter.                          *)
(*   KeyFile          the authorized-keys file: its lines                  *)
(*   GracefulTimeout  Server.GracefulTimeout, in seconds                   *)
(*   lpc, ret         ListenAndServe's position and its return value       *)
(*   authorized       the keys loadAuthorizedKeys returned                 *)
(*   spc              the goroutine running server.ListenAndServe()        *)
(*   listener         the library's listener: none, open, closed           *)
(*   errCh            the buffered channel errCh                           *)
(*   ctxDone          the context passed to ListenAndServe is cancelled    *)
(*   sess             each session: none, rejected (authentication         *)
(*                    failed), invoked (the wrapped handler was called),   *)
(*                    in (counted), left; pre: counted before the signal   *)
(*   auth             the last call of the public-key callback             *)
(*   active, cond, mu sessionCounter's fields (cond: created or nil; mu:   *)
(*                    free or held by wait; add holds it for its whole     *)
(*                    body)                                                *)
(*   wpc              sessionCounter.wait's position                       *)
(*   ctxSet, ctxTimeout, elapsed                                           *)
(*                    waitCtx: whether it exists, its timeout and the      *)
(*                    seconds since it was made                            *)
(***************************************************************************)
VARIABLES KeyFile, GracefulTimeout, lpc, ret, authorized, spc, listener, errCh, ctxDone,
          sess, auth, active, cond, mu, wpc, ctxSet, ctxTimeout, elapsed

srvVars == <<KeyFile, GracefulTimeout, lpc, ret, authorized, spc, listener, errCh, ctxDone,
             sess, auth, active, cond, mu, wpc, ctxSet, ctxTimeout, elapsed>>

(***************************************************************************)
(* ParseSSHCommand applied to a command on its own.                        *)
(*   cmd     the command string, and the fields it was written from        *)
(*   parsed  what ParseSSHCommand returned for it, "none" before the call  *)
(***************************************************************************)
VARIABLES cmd, parsed

parseVars == <<cmd, parsed>>

(***************************************************************************)
(* ServiceExecutor.Serve on its own: one call, its subprocess and the      *)
(* goroutine of os/exec that copies the caller's input to the subprocess.  *)
(*   ereq     the request passed to Serve                                  *)
(*   estdin   the stdin argument: "nil", or "reader" (an io.Reader that    *)
(*            is not an *os.File, as the SSH session is)                   *)
(*   epc      Serve's position: off, call, wait (inside cmd.Run),          *)
(*            returned                                                     *)
(*   eret     the error Serve returned                                     *)
(*   ectx     the context passed to Serve is cancelled                     *)
(*   proc     the subprocess: none, running, exited, failed, killed        *)
(*   copier   the copying goroutine: none, reading (inside stdin.Read),    *)
(*            writing (has a chunk for the pipe), done                     *)
(*   chunks   the chunks the input stream has delivered                    *)
(***************************************************************************)
VARIABLES ereq, estdin, epc, eret, ectx, proc, copier, chunks

execVars == <<ereq, estdin, epc, eret, ectx, proc, copier, chunks>>

(***************************************************************************)
(* ParseEndpoint applied to an input on its own.                           *)
(*   raw       the input: its text and, for a URL, the scheme, authority   *)
(*             and path it was written from                                *)
(*   endpoint  what ParseEndpoint returned for it                          *)
(***************************************************************************)
VARIABLES raw, endpoint

epVars == <<raw, endpoint>>

(***************************************************************************)
(* gitsshd: main, setupDemo and the files they make.                       *)
(*   mpc     main's position: off, root, sshdir, key, authfile, serve,     *)
(*           running (inside server.ListenAndServe), exited                *)
(*   files   the files: whether ./.repositories, ./.ssh, ./.ssh/hostkey    *)
(*           and ./.ssh/authorized_keys exist (the lines of the last one   *)
(*           are KeyFile)                                                  *)
(*   firstRun  ./.ssh/authorized_keys did not exist when main started      *)
(*   mexit   the exit status of the process                                *)
(***************************************************************************)
VARIABLES mpc, files, firstRun, mexit

mainVars == <<mpc, files, firstRun, mexit>>

(***************************************************************************)
(* The way SSH sessions end.                                               *)
(*   lastExit  the path by which the handler of the last session that      *)
(*             ended returned, "" when none has                            *)
(***************************************************************************)
VARIABLES lastExit

cntVars == <<lastExit>>

(***************************************************************************)
(* One client path through the confinement of each transport.              *)
(*   croot     the configured repository root                              *)
(*   cpath     the path the client supplied                                *)
(*   sshConf   what the SSH handler's confinement made of it               *)
(*   httpConf  what the HTTP handler's confinement made of it              *)
(***************************************************************************)
VARIABLES croot, cpath, sshConf, httpConf

cmpVars == <<croot, cpath, sshConf, httpConf>>

extVars == <<execVars, epVars, mainVars, cntVars, cmpVars>>

vars == <<reqVars, srvVars, parseVars, extVars>>

NoRequest == [transport |-> "none", rawCmd |-> <<>>, method |-> "", path |-> <<>>, query |-> <<>>]

NoLocals == [svc |-> <<>>, repoPath |-> <<>>, repoFull |-> <<>>, advertise |-> FALSE]

Ev(e, a, b, c) == [ev |-> e, a |-> a, b |-> b, c |-> c]

Has(o, e) == \E i \in 1..Len(o) : o[i].ev = e

\* fmt.Fprintf(sess.Stderr(), ...) then sess.Exit(code)
sshFail(o, msg) == o \o <<Ev("stderr", msg, <<>>, <<>>), Ev("exit", 1, <<>>, <<>>)>>

\* http.Error / http.NotFound: the status line, then the message as body
httpError(o, msg, code) == o \o <<Ev("status", code, <<>>, <<>>), Ev("errbody", msg, <<>>, <<>>)>>

\* a write to the ResponseWriter: the first one sends status 200 and the headers
httpWrite(o, data) ==
    (IF Has(o, "status") THEN o ELSE Append(o, Ev("status", 200, <<>>, <<>>)))
        \o <<Ev("body", data, <<>>, <<>>)>>

\* the handler returns: net/http sends status 200 if nothing was sent
httpFinish(o) == IF Has(o, "status") THEN o ELSE Append(o, Ev("status", 200, <<>>, <<>>))

ReqInit ==
    /\ RepoRoot \in Roots
    /\ rq = NoRequest
    /\ pc = "idle"
    /\ loc = NoLocals
    /\ checked = {}
    /\ out = <<>>

\* an authenticated SSH session starts with its raw command
SshSession ==
    /\ pc = "idle"
    /\ \E c \in SshCommands : rq' = [NoRequest EXCEPT !.transport = "ssh", !.rawCmd = c]
    /\ pc' = "ssh_parse"
    /\ loc' = NoLocals /\ checked' = {} /\ out' = <<>>
    /\ UNCHANGED <<RepoRoot, srvVars, parseVars, extVars>>

\* an HTTP request arrives
HttpRequest ==
    /\ pc = "idle"
    /\ \E m \in Methods, u \in UrlPaths :
         \E q \in QueryServices(u) :
            rq' = [NoRequest EXCEPT !.transport = "http", !.method = m, !.path = u, !.query = q]
    /\ pc' = "http_route"
    /\ loc' = NoLocals /\ checked' = {} /\ out' = <<>>
    /\ UNCHANGED <<RepoRoot, srvVars, parseVars, extVars>>

(***************************************************************************)
(* SSH transport: Server.handleSession, a step at a time                   *)
(***************************************************************************)
\* rawCmd := sess.RawCommand(); req, err := service.ParseSSHCommand(rawCmd)
handleSessionParse ==
    /\ pc = "ssh_parse"
    /\ LET r == ParseSSHCommand(rq.rawCmd)
       IN  IF r.err # Nil
           THEN /\ out' = sshFail(out, "invalid command")
                /\ pc' = "closed"
                /\ UNCHANGED <<loc, checked>>
           ELSE /\ loc' = [loc EXCEPT !.svc = r.req.Service, !.repoPath = r.req.RepoPath]
                /\ checked' = checked \cup {"service", "nonempty"}
                /\ pc' = "ssh_resolve"
                /\ UNCHANGED out
    /\ UNCHANGED <<RepoRoot, rq, srvVars, parseVars, extVars>>

\* a handler that looks for the repository on disk before it confines the path
handleSessionResolveStatFirst ==
    /\ pc = "ssh_resolve"
    /\ LET r == resolveRepoPath(RepoRoot, loc.repoPath)
           o == Append(out, Ev("stat", Join(RepoRoot, loc.repoPath), <<>>, <<>>))
       IN  IF r.err # Nil
           THEN /\ out' = sshFail(o, "invalid repo path")
                /\ pc' = "closed"
                /\ UNCHANGED <<loc, checked>>
           ELSE /\ loc' = [loc EXCEPT !.repoFull = r.full]
                /\ checked' = checked \cup {"nonempty", "confined"}
                /\ pc' = "ssh_stat"
                /\ UNCHANGED out
    /\ UNCHANGED <<RepoRoot, rq, srvVars, parseVars, extVars>>

\* repoFull, err := s.resolveRepoPath(req.RepoPath)
handleSessionResolve ==
    /\ pc = "ssh_resolve"
    /\ LET r == resolveRepoPath(RepoRoot, loc.repoPath)
       IN  IF r.err # Nil
           THEN /\ out' = sshFail(out, "invalid repo path")
                /\ pc' = "closed"
                /\ UNCHANGED <<loc, checked>>
           ELSE /\ loc' = [loc EXCEPT !.repoFull = r.full]
                /\ checked' = checked \cup {"nonempty", "confined"}
                /\ pc' = "ssh_stat"
                /\ UNCHANGED out
    /\ UNCHANGED <<RepoRoot, rq, srvVars, parseVars, extVars>>

\* handleSessionStat that exits with status 1 without a line on stderr
handleSessionStatSilent ==
    /\ pc = "ssh_stat"
    /\ \E exists \in BOOLEAN :
         LET o == Append(out, Ev("stat", loc.repoFull, <<>>, <<>>))
         IN  IF exists
             THEN out' = o /\ pc' = "ssh_serve"
             ELSE out' = Append(o, Ev("exit", 1, <<>>, <<>>)) /\ pc' = "closed"
    /\ UNCHANGED <<RepoRoot, rq, loc, checked, srvVars, parseVars, extVars>>

\* os.Stat(repoFull): the repository is on disk or it is not
handleSessionStat ==
    /\ pc = "ssh_stat"
    /\ \E exists \in BOOLEAN :
         LET o == Append(out, Ev("stat", loc.repoFull, <<>>, <<>>))
         IN  IF exists
             THEN out' = o /\ pc' = "ssh_serve"
             ELSE out' = sshFail(o, "repository not found") /\ pc' = "closed"
    /\ UNCHANGED <<RepoRoot, rq, loc, checked, srvVars, parseVars, extVars>>

\* ServiceExecutor.Serve on the session's streams, then sess.Exit: Validate,
\* resolveBinary, exec.CommandContext(ctx, binary, req.RepoPath), cmd.Run();
\* "served" records the error Serve returned
handleSessionServe ==
    /\ pc = "ssh_serve"
    /\ LET execReq == [Service |-> loc.svc, RepoPath |-> loc.repoFull]
           b == resolveBinary(execReq.Service)
       IN  IF Validate(execReq) # Nil \/ b.err # Nil
           THEN out' = sshFail(Append(out, Ev("served", "invalid request", <<>>, <<>>)),
                               "git service failed")
           ELSE \E ok \in BOOLEAN :
                  LET o == Append(out, Ev("spawn", b.bin, <<execReq.RepoPath>>, "session"))
                  IN  out' = IF ok
                             THEN o \o <<Ev("served", Nil, <<>>, <<>>), Ev("exit", 0, <<>>, <<>>)>>
                             ELSE sshFail(Append(o, Ev("served", "exit status", <<>>, <<>>)),
                                          "git service failed")
    /\ pc' = "closed"
    /\ UNCHANGED <<RepoRoot, rq, loc, checked, srvVars, parseVars, extVars>>

(***************************************************************************)
(* HTTP transport: Server.ServeHTTP and the handlers it dispatches to      *)
(***************************************************************************)
HexChars == <<"0", "1", "2", "3", "4", "5", "6", "7", "8", "9", "a", "b", "c", "d", "e", "f">>

\* fmt's %04x
Hex4(n) ==
    <<HexChars[((n \div 4096) % 16) + 1], HexChars[((n \div 256) % 16) + 1],
      HexChars[((n \div 16) % 16) + 1], HexChars[(n % 16) + 1]>>

\* headerLine := "# service=<svc>\n"
headerLine(svc) == <<"#", " ", "s", "e", "r", "v", "i", "c", "e", "=">> \o Command(svc) \o <<"\n">>

\* a pkt-line whose length leaves out the four digits of the length itself
pktLineShort(svc) == Hex4(Len(headerLine(svc))) \o headerLine(svc)

\* the pkt-line handleInfoRefs writes: "%04x%s" of len(headerLine)+4 and headerLine
pktLine(svc) == Hex4(Len(headerLine(svc)) + 4) \o headerLine(svc)

FlushPkt == <<"0", "0", "0", "0">>

ServeHTTP ==
    /\ pc = "http_route"
    /\ IF HasSuffix(rq.path, InfoRefsSuffix)
       THEN pc' = "http_inforefs" /\ UNCHANGED <<loc, out>>
       ELSE IF HasSuffix(rq.path, Slash \o ServiceUploadPack)
       THEN pc' = "http_service" /\ loc' = [loc EXCEPT !.svc = ServiceUploadPack] /\ UNCHANGED out
       ELSE IF HasSuffix(rq.path, Slash \o ServiceReceivePack)
       THEN pc' = "http_service" /\ loc' = [loc EXCEPT !.svc = ServiceReceivePack] /\ UNCHANGED out
       ELSE pc' = "closed" /\ out' = httpError(out, "404 page not found", 404) /\ UNCHANGED loc
    /\ UNCHANGED <<RepoRoot, rq, checked, srvVars, parseVars, extVars>>

\* handleInfoRefs that tests the service parameter before the method
handleInfoRefsServiceFirst ==
    /\ pc = "http_inforefs"
    /\ LET p == parseServiceParam(rq.query)
           r == repoPathFromURL(TrimSuffix(rq.path, InfoRefsSuffix))
       IN  IF p.err # Nil
           THEN /\ out' = httpError(out, p.err, 400)
                /\ pc' = "closed" /\ UNCHANGED <<loc, checked>>
           ELSE IF rq.method # "GET"
           THEN /\ out' = httpError(out, "method not allowed", 405)
                /\ pc' = "closed" /\ UNCHANGED <<loc, checked>>
           ELSE IF r.err # Nil
           THEN /\ out' = httpError(out, r.err, 400)
                /\ pc' = "closed" /\ UNCHANGED <<loc, checked>>
           ELSE /\ loc' = [loc EXCEPT !.svc = p.svc, !.repoPath = r.path, !.advertise = TRUE]
                /\ checked' = checked \cup {"service", "nonempty"}
                /\ out' = out \o <<Ev("header", "Content-Type", <<"advertisement", p.svc>>, <<>>),
                                   Ev("header", "Cache-Control", <<"no-cache">>, <<>>)>>
                /\ pc' = "http_advertise"
    /\ UNCHANGED <<RepoRoot, rq, srvVars, parseVars, extVars>>

\* handleInfoRefs up to the response headers (part_000 lines 42-63)
handleInfoRefs ==
    /\ pc = "http_inforefs"
    /\ LET p == parseServiceParam(rq.query)
           r == repoPathFromURL(TrimSuffix(rq.path, InfoRefsSuffix))
       IN  IF rq.method # "GET"
           THEN /\ out' = httpError(out, "method not allowed", 405)
                /\ pc' = "closed" /\ UNCHANGED <<loc, checked>>
           ELSE IF p.err # Nil
           THEN /\ out' = httpError(out, p.err, 400)
                /\ pc' = "closed" /\ UNCHANGED <<loc, checked>>
           ELSE IF r.err # Nil
           THEN /\ out' = httpError(out, r.err, 400)
                /\ pc' = "closed" /\ UNCHANGED <<loc, checked>>
           ELSE /\ loc' = [loc EXCEPT !.svc = p.svc, !.repoPath = r.path, !.advertise = TRUE]
                /\ checked' = checked \cup {"service", "nonempty"}
                /\ out' = out \o <<Ev("header", "Content-Type", <<"advertisement", p.svc>>, <<>>),
                                   Ev("header", "Cache-Control", <<"no-cache">>, <<>>)>>
                /\ pc' = "http_advertise"
    /\ UNCHANGED <<RepoRoot, rq, srvVars, parseVars, extVars>>

\* handleInfoRefs: the service header pkt-line, the flush marker, the flush
\* (part_000 lines 65-75); either write may fail and end the handler
handleInfoRefsAdvertise ==
    /\ pc = "http_advertise"
    /\ \E w \in {"ok", "first write fails", "second write fails"} :
         IF w = "first write fails"
         THEN out' = Append(out, Ev("writeerr", 1, <<>>, <<>>)) /\ pc' = "closed"
         ELSE IF w = "second write fails"
         THEN /\ out' = Append(httpWrite(out, pktLine(loc.svc)), Ev("writeerr", 2, <<>>, <<>>))
              /\ pc' = "closed"
         ELSE /\ out' = Append(httpWrite(httpWrite(out, pktLine(loc.svc)), FlushPkt),
                               Ev("flush", <<>>, <<>>, <<>>))
              /\ pc' = "http_rpc"
    /\ UNCHANGED <<RepoRoot, rq, loc, checked, srvVars, parseVars, extVars>>

\* handleServiceRPC up to the response headers (part_000 lines 82-105)
handleServiceRPC ==
    /\ pc = "http_service"
    /\ LET r == repoPathFromURL(TrimSuffix(rq.path, Slash \o Command(loc.svc)))
       IN  IF rq.method # "POST"
           THEN /\ out' = httpError(out, "method not allowed", 405)
                /\ pc' = "closed" /\ UNCHANGED <<loc, checked>>
           ELSE IF r.err # Nil
           THEN /\ out' = httpError(out, r.err, 400)
                /\ pc' = "closed" /\ UNCHANGED <<loc, checked>>
           ELSE IF loc.svc # ServiceUploadPack /\ loc.svc # ServiceReceivePack
           THEN /\ out' = httpError(out, "unsupported service", 400)
                /\ pc' = "closed" /\ UNCHANGED <<loc, checked>>
           ELSE /\ loc' = [loc EXCEPT !.repoPath = r.path, !.advertise = FALSE]
                /\ checked' = checked \cup {"service", "nonempty"}
                /\ out' = out \o <<Ev("header", "Content-Type", <<"result", loc.svc>>, <<>>),
                                   Ev("header", "Cache-Control", <<"no-cache">>, <<>>)>>
                /\ pc' = "http_rpc"
    /\ UNCHANGED <<RepoRoot, rq, srvVars, parseVars, extVars>>

\* runStatelessRPC without its call of ensureWithinRoot
runStatelessRPCUnconfined ==
    /\ pc = "http_rpc"
    /\ LET full == rpcRepoFull(RepoRoot, loc.repoPath)
           e == IF ~IsSupported(loc.svc) THEN "unsupported service" ELSE Nil
       IN  IF e # Nil
           THEN /\ out' = httpFinish(Append(out, Ev("log", e, <<>>, <<>>)))
                /\ pc' = "closed" /\ UNCHANGED <<loc, checked>>
           ELSE /\ loc' = [loc EXCEPT !.repoFull = full]
                /\ checked' = checked \cup {"service"}
                /\ pc' = "http_stat"
                /\ UNCHANGED out
    /\ UNCHANGED <<RepoRoot, rq, srvVars, parseVars, extVars>>

\* runStatelessRPC: the service test, the join and ensureWithinRoot
\* (part_000 lines 113-120); an error is logged by the caller
runStatelessRPCConfine ==
    /\ pc = "http_rpc"
    /\ LET full == rpcRepoFull(RepoRoot, loc.repoPath)
           e == IF ~IsSupported(loc.svc) THEN "unsupported service"
                ELSE ensureWithinRoot(RepoRoot, full)
       IN  IF e # Nil
           THEN /\ out' = httpFinish(Append(out, Ev("log", e, <<>>, <<>>)))
                /\ pc' = "closed" /\ UNCHANGED <<loc, checked>>
           ELSE /\ loc' = [loc EXCEPT !.repoFull = full]
                /\ checked' = checked \cup {"service", "confined"}
                /\ pc' = "http_stat"
                /\ UNCHANGED out
    /\ UNCHANGED <<RepoRoot, rq, srvVars, parseVars, extVars>>

\* runStatelessRPC: os.Stat(repoFull)
runStatelessRPCStat ==
    /\ pc = "http_stat"
    /\ \E exists \in BOOLEAN :
         LET o == Append(out, Ev("stat", loc.repoFull, <<>>, <<>>))
         IN  IF exists
             THEN out' = o /\ pc' = "http_run"
             ELSE out' = httpFinish(Append(o, Ev("log", "repo not found", <<>>, <<>>))) /\ pc' = "closed"
    /\ UNCHANGED <<RepoRoot, rq, loc, checked, srvVars, parseVars, extVars>>

\* a runStatelessRPC that leaves --advertise-refs out of the arguments
runStatelessRPCRunNoAdvertise ==
    /\ pc = "http_run"
    /\ LET args == <<"--stateless-rpc">> \o <<loc.repoFull>>
           stdin == IF loc.advertise THEN "nil" ELSE "body"
           o == Append(out, Ev("spawn", Command(loc.svc), args, stdin))
       IN  \E ok \in BOOLEAN :
             out' = IF ok THEN httpFinish(Append(o, Ev("procout", <<>>, <<>>, <<>>)))
                    ELSE httpFinish(Append(o, Ev("log", "exit status", <<>>, <<>>)))
    /\ pc' = "closed"
    /\ UNCHANGED <<RepoRoot, rq, loc, checked, srvVars, parseVars, extVars>>

\* runStatelessRPC: the arguments, the binary, cmd.Run() (part_000 lines
\* 125-144); the subprocess writes to the ResponseWriter
runStatelessRPCRun ==
    /\ pc = "http_run"
    /\ LET args == <<"--stateless-rpc">>
                     \o (IF loc.advertise THEN <<"--advertise-refs">> ELSE <<>>)
                     \o <<loc.repoFull>>
           stdin == IF loc.advertise THEN "nil" ELSE "body"
           o == Append(out, Ev("spawn", Command(loc.svc), args, stdin))
       IN  \E ok \in BOOLEAN :
             out' = IF ok THEN httpFinish(Append(o, Ev("procout", <<>>, <<>>, <<>>)))
                    ELSE httpFinish(Append(o, Ev("log", "exit status", <<>>, <<>>)))
    /\ pc' = "closed"
    /\ UNCHANGED <<RepoRoot, rq, loc, checked, srvVars, parseVars, extVars>>

\* the connection is done with; the next request may come
RequestDone ==
    /\ pc = "closed"
    /\ pc' = "idle"
    /\ rq' = NoRequest /\ loc' = NoLocals /\ checked' = {} /\ out' = <<>>
    /\ UNCHANGED <<RepoRoot, srvVars, parseVars, extVars>>

ReqNext ==
    \/ SshSession
    \/ handleSessionParse
    \/ handleSessionResolve
    \/ handleSessionStat
    \/ handleSessionServe
    \/ HttpRequest
    \/ ServeHTTP
    \/ handleInfoRefs
    \/ handleInfoRefsAdvertise
    \/ handleServiceRPC
    \/ runStatelessRPCConfine
    \/ runStatelessRPCStat
    \/ runStatelessRPCRun
    \/ RequestDone

(***************************************************************************)
(* SSH server: authorized keys, Server.ListenAndServe, sessionCounter      *)
(***************************************************************************)
\* the most sessions of one run of the server
MaxSessions == 2

\* the most lines of an authorized-keys file
MaxKeyLines == 2

Sessions == 1..MaxSessions

\* the lines an authorized-keys file is made of: keys with their wire
\* encoding (blob) and comment, a blank or comment line, a line that is no key
KeyLines ==
    {[kind |-> "key", blob |-> <<1>>, comment |-> "alice"],
     [kind |-> "key", blob |-> <<2>>, comment |-> "bob"],
     [kind |-> "blank", blob |-> <<>>, comment |-> ""],
     [kind |-> "garbage", blob |-> <<>>, comment |-> ""]}

KeyFiles == UNION {[1..k -> KeyLines] : k \in 0..MaxKeyLines}

\* the wire encodings of the keys clients offer
OfferedKeys == {<<1>>, <<2>>, <<3>>}

\* PublicKey.Marshal: the wire encoding, without comment or options
Marshal(key) == key.blob

\* ssh.ParseAuthorizedKey: the first key of data and the rest; blank and
\* comment lines before it are skipped; an error when there is no key or the
\* line is not one
RECURSIVE ParseAuthorizedKey(_)
ParseAuthorizedKey(data) ==
    IF data = <<>> THEN [err |-> "no key found", pubKey |-> <<>>, rest |-> <<>>]
    ELSE IF Head(data).kind = "blank" THEN ParseAuthorizedKey(Tail(data))
    ELSE IF Head(data).kind = "garbage" THEN [err |-> "no key found", pubKey |-> <<>>, rest |-> <<>>]
    ELSE [err |-> Nil, pubKey |-> Head(data), rest |-> Tail(data)]

\* loadAuthorizedKeys: the loop over the file, then the test for no key
RECURSIVE loadLoop(_, _)
loadLoop(data, keys) ==
    IF data = <<>> THEN [keys |-> keys, err |-> Nil]
    ELSE LET r == ParseAuthorizedKey(data)
         IN  IF r.err # Nil THEN [keys |-> <<>>, err |-> r.err]
             ELSE loadLoop(r.rest, Append(keys, Marshal(r.pubKey)))

\* loadAuthorizedKeys without the test for no key
loadAuthorizedKeysAllowEmpty(file) == loadLoop(file, <<>>)

loadAuthorizedKeys(file) ==
    LET r == loadLoop(file, <<>>)
    IN  IF r.err # Nil THEN r
        ELSE IF Len(r.keys) = 0 THEN [keys |-> <<>>, err |-> "no authorized keys configured"]
        ELSE r

\* the callback authorizeKey returns, applied to a key's wire encoding
authorizeKey(allowedKeys, marshaled) ==
    \E i \in 1..Len(allowedKeys) : marshaled = allowedKeys[i]

\* the default of Server.shutdownTimeout, in seconds
DefaultGracefulTimeout == 10

\* shutdownTimeout without the default
shutdownTimeoutNoDefault(graceful) == graceful

\* Server.shutdownTimeout
shutdownTimeout(graceful) == IF graceful > 0 THEN graceful ELSE DefaultGracefulTimeout

\* the deadline of waitCtx has passed
Expired == ctxSet /\ elapsed >= ctxTimeout

\* an add that changes the count and wakes nobody
addCountNoBroadcast(delta) ==
    /\ mu = "free"
    /\ active' = active + delta
    /\ UNCHANGED <<cond, mu, wpc>>

\* sessionCounter.add under its lock: the new count, and the broadcast that
\* wakes wait out of cond.Wait when the condition variable exists
addCount(delta) ==
    /\ mu = "free"
    /\ active' = active + delta
    /\ wpc' = IF cond /\ wpc = "parked" THEN "woken" ELSE wpc
    /\ UNCHANGED <<cond, mu>>

\* ListenAndServe up to the select: the authorized keys are loaded, the
\* library server and the counter are set up, the serving goroutine started
ListenAndServeStart ==
    /\ lpc = "start"
    /\ LET r == loadAuthorizedKeys(KeyFile)
       IN  IF r.err # Nil
           THEN /\ lpc' = "returned" /\ ret' = "load authorized keys"
                /\ UNCHANGED <<authorized, spc>>
           ELSE /\ authorized' = r.keys
                /\ spc' = "started"
                /\ lpc' = "select"
                /\ UNCHANGED ret
    /\ UNCHANGED <<KeyFile, GracefulTimeout, listener, errCh, ctxDone, sess, auth,
                   active, cond, mu, wpc, ctxSet, ctxTimeout, elapsed, reqVars, parseVars, extVars>>

\* the goroutine's server.ListenAndServe(): the listener opens, or listening
\* fails (or the server was closed first) and the error goes to errCh
ServerListen ==
    /\ spc = "started"
    /\ \E ok \in BOOLEAN :
         IF ok /\ listener = "none"
         THEN listener' = "open" /\ spc' = "serving" /\ UNCHANGED errCh
         ELSE /\ errCh' = Append(errCh, IF listener = "closed" THEN "server closed" ELSE "listen failed")
              /\ spc' = "exited" /\ UNCHANGED listener
    /\ UNCHANGED <<KeyFile, GracefulTimeout, lpc, ret, authorized, ctxDone, sess, auth,
                   active, cond, mu, wpc, ctxSet, ctxTimeout, elapsed, reqVars, parseVars, extVars>>

\* the goroutine's server.ListenAndServe() returns after server.Close()
ServerStopped ==
    /\ spc = "serving" /\ listener = "closed"
    /\ errCh' = Append(errCh, "server closed")
    /\ spc' = "exited"
    /\ UNCHANGED <<KeyFile, GracefulTimeout, lpc, ret, authorized, listener, ctxDone, sess, auth,
                   active, cond, mu, wpc, ctxSet, ctxTimeout, elapsed, reqVars, parseVars, extVars>>

\* a client connects to the open listener and offers a key: the public-key
\* callback decides; when it accepts, the library calls the wrapped handler
Accept(s) ==
    /\ spc = "serving" /\ listener = "open"
    /\ sess[s].st = "none"
    /\ \E k \in OfferedKeys :
         LET ok == authorizeKey(authorized, k)
         IN  /\ auth' = [key |-> k, ok |-> ok]
             /\ sess' = [sess EXCEPT ![s].st = IF ok THEN "invoked" ELSE "rejected"]
    /\ UNCHANGED <<KeyFile, GracefulTimeout, lpc, ret, authorized, spc, listener, errCh, ctxDone,
                   active, cond, mu, wpc, ctxSet, ctxTimeout, elapsed, reqVars, parseVars, extVars>>

\* wrapSessionCount: counter.add(1) on entry
SessionEnter(s) ==
    /\ sess[s].st = "invoked"
    /\ addCount(1)
    /\ sess' = [sess EXCEPT ![s] = [st |-> "in", pre |-> ~ctxDone]]
    /\ UNCHANGED <<KeyFile, GracefulTimeout, lpc, ret, authorized, spc, listener, errCh, ctxDone,
                   auth, ctxSet, ctxTimeout, elapsed, reqVars, parseVars, extVars>>

\* the paths by which handleSession returns
ExitPaths ==
    {"success", "parse failure", "confinement failure", "missing repository",
     "executor failure"}

\* a wrapped handler that counts down only at the end of a successful session
SessionLeaveOnSuccess(s) ==
    /\ sess[s].st = "in"
    /\ \E how \in ExitPaths :
         /\ lastExit' = how
         /\ IF how = "success" THEN addCount(-1) ELSE UNCHANGED <<active, cond, mu, wpc>>
    /\ sess' = [sess EXCEPT ![s].st = "left"]
    /\ UNCHANGED <<KeyFile, GracefulTimeout, lpc, ret, authorized, spc, listener, errCh, ctxDone,
                   auth, ctxSet, ctxTimeout, elapsed, reqVars, parseVars, execVars, epVars,
                   mainVars, cmpVars>>

\* wrapSessionCount: next(s) returns by one of its paths and the deferred
\* counter.add(-1) runs
SessionLeave(s) ==
    /\ sess[s].st = "in"
    /\ \E how \in ExitPaths : lastExit' = how
    /\ addCount(-1)
    /\ sess' = [sess EXCEPT ![s].st = "left"]
    /\ UNCHANGED <<KeyFile, GracefulTimeout, lpc, ret, authorized, spc, listener, errCh, ctxDone,
                   auth, ctxSet, ctxTimeout, elapsed, reqVars, parseVars, execVars, epVars,
                   mainVars, cmpVars>>

\* the shutdown signal: the context passed to ListenAndServe is cancelled
Signal ==
    /\ ~ctxDone
    /\ ctxDone' = TRUE
    /\ UNCHANGED <<KeyFile, GracefulTimeout, lpc, ret, authorized, spc, listener, errCh, sess, auth,
                   active, cond, mu, wpc, ctxSet, ctxTimeout, elapsed, reqVars, parseVars, extVars>>

\* select: case <-ctx.Done()
SelectDone ==
    /\ lpc = "select" /\ ctxDone
    /\ lpc' = "close"
    /\ UNCHANGED <<KeyFile, GracefulTimeout, ret, authorized, spc, listener, errCh, ctxDone, sess, auth,
                   active, cond, mu, wpc, ctxSet, ctxTimeout, elapsed, reqVars, parseVars, extVars>>

\* select: case err := <-errCh; wg.Wait(); return err
SelectErr ==
    /\ lpc = "select" /\ errCh # <<>>
    /\ ret' = Head(errCh) /\ errCh' = Tail(errCh)
    /\ lpc' = "returned"
    /\ UNCHANGED <<KeyFile, GracefulTimeout, authorized, spc, listener, ctxDone, sess, auth,
                   active, cond, mu, wpc, ctxSet, ctxTimeout, elapsed, reqVars, parseVars, extVars>>

\* server.Close(): the listener stops accepting
ServerClose ==
    /\ lpc = "close"
    /\ listener' = "closed"
    /\ lpc' = "mkctx"
    /\ UNCHANGED <<KeyFile, GracefulTimeout, ret, authorized, spc, errCh, ctxDone, sess, auth,
                   active, cond, mu, wpc, ctxSet, ctxTimeout, elapsed, reqVars, parseVars, extVars>>

\* waitCtx := context.WithTimeout(context.Background(), s.shutdownTimeout());
\* active.wait(waitCtx) is entered
MakeWaitCtx ==
    /\ lpc = "mkctx"
    /\ ctxSet' = TRUE /\ ctxTimeout' = shutdownTimeout(GracefulTimeout) /\ elapsed' = 0
    /\ lpc' = "wait" /\ wpc' = "lock"
    /\ UNCHANGED <<KeyFile, GracefulTimeout, ret, authorized, spc, listener, errCh, ctxDone, sess, auth,
                   active, cond, mu, reqVars, parseVars, extVars>>

\* a second passes on waitCtx's timer
Tick ==
    /\ ctxSet /\ lpc # "returned" /\ elapsed < ctxTimeout
    /\ elapsed' = elapsed + 1
    /\ UNCHANGED <<KeyFile, GracefulTimeout, lpc, ret, authorized, spc, listener, errCh, ctxDone, sess, auth,
                   active, cond, mu, wpc, ctxSet, ctxTimeout, reqVars, parseVars, extVars>>

\* wait: c.mu.Lock(); if c.cond == nil { c.cond = sync.NewCond(&c.mu) }
waitLock ==
    /\ wpc = "lock" /\ mu = "free"
    /\ mu' = "wait" /\ cond' = TRUE
    /\ wpc' = "loop"
    /\ UNCHANGED <<active>>

\* wait: for c.active > 0 { ... }; c.mu.Unlock() after the loop
waitLoop ==
    /\ wpc = "loop"
    /\ IF active > 0 THEN wpc' = "select" /\ UNCHANGED mu
       ELSE wpc' = "done" /\ mu' = "free"
    /\ UNCHANGED <<active, cond>>

\* wait: select { case <-ctx.Done(): unlock, return; default: }; c.cond.Wait()
waitSelect ==
    /\ wpc = "select"
    /\ wpc' = IF Expired THEN "done" ELSE "parked"
    /\ mu' = "free"
    /\ UNCHANGED <<active, cond>>

\* wait: cond.Wait() returns after a Broadcast, with the lock held again
waitWake ==
    /\ wpc = "woken" /\ mu = "free"
    /\ mu' = "wait"
    /\ wpc' = "errcheck"
    /\ UNCHANGED <<active, cond>>

\* wait that returns after any Broadcast
waitErrCheckReturns ==
    /\ wpc = "errcheck"
    /\ wpc' = "done" /\ mu' = "free"
    /\ UNCHANGED <<active, cond>>

\* wait: if ctx.Err() != nil { unlock, return }
waitErrCheck ==
    /\ wpc = "errcheck"
    /\ IF Expired THEN wpc' = "done" /\ mu' = "free"
       ELSE wpc' = "loop" /\ UNCHANGED mu
    /\ UNCHANGED <<active, cond>>

\* a step of sessionCounter.wait
waitStep == waitLock \/ waitLoop \/ waitSelect \/ waitWake \/ waitErrCheck

\* active.wait(waitCtx) running inside ListenAndServe
Wait ==
    /\ lpc = "wait"
    /\ waitStep
    /\ UNCHANGED <<KeyFile, GracefulTimeout, lpc, ret, authorized, spc, listener, errCh, ctxDone, sess, auth,
                   ctxSet, ctxTimeout, elapsed, reqVars, parseVars, extVars>>

\* after wait: <-errCh; wg.Wait(); return nil
ListenAndServeReturn ==
    /\ lpc = "wait" /\ wpc = "done"
    /\ errCh # <<>>
    /\ errCh' = Tail(errCh)
    /\ ret' = Nil
    /\ lpc' = "returned"
    /\ UNCHANGED <<KeyFile, GracefulTimeout, authorized, spc, listener, ctxDone, sess, auth,
                   active, cond, mu, wpc, ctxSet, ctxTimeout, elapsed, reqVars, parseVars, extVars>>

SrvNext ==
    \/ ListenAndServeStart
    \/ ServerListen
    \/ ServerStopped
    \/ \E s \in Sessions : Accept(s)
    \/ \E s \in Sessions : SessionEnter(s)
    \/ \E s \in Sessions : SessionLeave(s)
    \/ Signal
    \/ SelectDone
    \/ SelectErr
    \/ ServerClose
    \/ MakeWaitCtx
    \/ Tick
    \/ Wait
    \/ ListenAndServeReturn

(***************************************************************************)
(* ParseSSHCommand on its own                                              *)
(***************************************************************************)
\* the most fields of a command
MaxFields == 3

\* the fields commands are made of: service names, a near miss, paths bare
\* and quoted, quotes alone
FieldWords ==
    {ServiceUploadPack, ServiceReceivePack, OtherService, ServiceUploadPack \o <<"x">>,
     <<"/", "a">>, <<"'", "/", "a", "'">>, <<"\"", "a", "\"">>, <<"'", "'">>, <<"'">>, <<"'", "a">>}

Gaps == {<<" ">>, <<"\t", " ">>}

Margins == {<<>>, <<" ">>}

RECURSIVE JoinFields(_, _)
JoinFields(fs, gap) ==
    IF fs = <<>> THEN <<>>
    ELSE IF Len(fs) = 1 THEN fs[1]
    ELSE fs[1] \o gap \o JoinFields(Tail(fs), gap)

\* the commands: up to MaxFields fields, separated and surrounded by white
\* space; each command string with the fields it was written from
Commands ==
    {[text |-> l \o JoinFields(fs, g) \o t, fields |-> fs] :
        l \in Margins, t \in Margins, g \in Gaps,
        fs \in UNION {[1..k -> FieldWords] : k \in 0..MaxFields}}

\* no call yet
NotParsed == [called |-> FALSE, req |-> ZeroRequest, err |-> Nil]

\* req, err := ParseSSHCommand(cmd)
ParseCommand ==
    /\ ~parsed.called
    /\ LET r == ParseSSHCommand(cmd.text)
       IN  parsed' = [called |-> TRUE, req |-> r.req, err |-> r.err]
    /\ UNCHANGED <<cmd, reqVars, srvVars, extVars>>

ParseNext == ParseCommand

(***************************************************************************)
(* ServiceExecutor.Serve and cmd.Run                                       *)
(***************************************************************************)
\* the chunks an input stream delivers at most
MaxChunks == 2

\* the requests passed to Serve
ExecRequests ==
    {[Service |-> sv, RepoPath |-> rp] :
        sv \in {ServiceUploadPack, ServiceReceivePack, OtherService},
        rp \in {<<>>, <<"/", "r">>}}

\* Serve up to cmd.Start: Validate, resolveBinary, exec.CommandContext and
\* the start of the subprocess; Start fails when the context is already
\* cancelled; with a stdin that is not a file os/exec starts the goroutine
\* that copies it to the subprocess's pipe
ServeStart ==
    /\ epc = "call"
    /\ LET b == resolveBinary(ereq.Service)
       IN  IF Validate(ereq) # Nil
           THEN epc' = "returned" /\ eret' = Validate(ereq) /\ UNCHANGED <<proc, copier>>
           ELSE IF b.err # Nil
           THEN epc' = "returned" /\ eret' = b.err /\ UNCHANGED <<proc, copier>>
           ELSE IF ectx
           THEN epc' = "returned" /\ eret' = "context canceled" /\ UNCHANGED <<proc, copier>>
           ELSE /\ epc' = "wait" /\ proc' = "running"
                /\ copier' = IF estdin = "reader" THEN "reading" ELSE "none"
                /\ UNCHANGED eret
    /\ UNCHANGED <<ereq, estdin, ectx, chunks, reqVars, srvVars, parseVars, epVars, mainVars, cntVars, cmpVars>>

\* the caller cancels the context
CtxCancel ==
    /\ epc \in {"call", "wait"} /\ ~ectx
    /\ ectx' = TRUE
    /\ UNCHANGED <<ereq, estdin, epc, eret, proc, copier, chunks, reqVars, srvVars, parseVars, epVars, mainVars, cntVars, cmpVars>>

\* the input stream delivers a chunk: stdin.Read returns it
StdinData ==
    /\ copier = "reading" /\ chunks < MaxChunks
    /\ chunks' = chunks + 1
    /\ copier' = "writing"
    /\ UNCHANGED <<ereq, estdin, epc, eret, ectx, proc, reqVars, srvVars, parseVars, epVars, mainVars, cntVars, cmpVars>>

\* the input stream ends: stdin.Read returns io.EOF, the goroutine closes
\* the pipe and stops
StdinEOF ==
    /\ copier = "reading"
    /\ copier' = "done"
    /\ UNCHANGED <<ereq, estdin, epc, eret, ectx, proc, chunks, reqVars, srvVars, parseVars, epVars, mainVars, cntVars, cmpVars>>

\* the goroutine writes its chunk to the pipe: to a running subprocess, or
\* with an error that stops it when the subprocess is gone
CopierWrite ==
    /\ copier = "writing"
    /\ copier' = IF proc = "running" THEN "reading" ELSE "done"
    /\ UNCHANGED <<ereq, estdin, epc, eret, ectx, proc, chunks, reqVars, srvVars, parseVars, epVars, mainVars, cntVars, cmpVars>>

\* the subprocess ends by itself, with status 0 or not
ProcExit ==
    /\ proc = "running"
    /\ proc' \in {"exited", "failed"}
    /\ UNCHANGED <<ereq, estdin, epc, eret, ectx, copier, chunks, reqVars, srvVars, parseVars, epVars, mainVars, cntVars, cmpVars>>

\* exec.CommandContext: the context is done, os.Process.Kill
Kill ==
    /\ epc = "wait" /\ ectx /\ proc = "running"
    /\ proc' = "killed"
    /\ UNCHANGED <<ereq, estdin, epc, eret, ectx, copier, chunks, reqVars, srvVars, parseVars, epVars, mainVars, cntVars, cmpVars>>

\* cmd.Wait returns: the subprocess has ended and, WaitDelay being zero, the
\* copying goroutine has stopped
WaitReturn ==
    /\ epc = "wait"
    /\ proc \in {"exited", "failed", "killed"}
    /\ copier \in {"none", "done"}
    /\ epc' = "returned"
    /\ eret' = IF proc = "killed" THEN "context canceled"
               ELSE IF proc = "failed" THEN "exit status"
               ELSE Nil
    /\ UNCHANGED <<ereq, estdin, ectx, proc, copier, chunks, reqVars, srvVars, parseVars, epVars, mainVars, cntVars, cmpVars>>

\* the steps Serve and the runtime under it take by themselves
ServeStep == ServeStart \/ CopierWrite \/ Kill \/ WaitReturn

ExecNext ==
    \/ ServeStart
    \/ CtxCancel
    \/ StdinData
    \/ StdinEOF
    \/ CopierWrite
    \/ ProcExit
    \/ Kill
    \/ WaitReturn

(***************************************************************************)
(* ParseEndpoint, splitUserHost, ensureLeadingSlash; net/url's Parse for   *)
(* inputs without query, fragment, escapes and bracketed hosts             *)
(***************************************************************************)
At == <<"@">>
Colon == <<":">>
SchemeSep == <<":", "/", "/">>

UpperChars == <<"A", "B", "C", "D", "E", "F", "G", "H", "I", "J", "K", "L", "M",
                "N", "O", "P", "Q", "R", "S", "T", "U", "V", "W", "X", "Y", "Z">>
LowerChars == <<"a", "b", "c", "d", "e", "f", "g", "h", "i", "j", "k", "l", "m",
                "n", "o", "p", "q", "r", "s", "t", "u", "v", "w", "x", "y", "z">>
DigitChars == {"0", "1", "2", "3", "4", "5", "6", "7", "8", "9"}

IsLetter(c) == \E i \in 1..26 : c = UpperChars[i] \/ c = LowerChars[i]

\* strings.ToLower
ToLower(s) ==
    [i \in 1..Len(s) |->
        IF \E k \in 1..26 : s[i] = UpperChars[k]
        THEN LowerChars[CHOOSE k \in 1..26 : s[i] = UpperChars[k]]
        ELSE s[i]]

\* strings.Index: the first position of sub in s from position i on, 0 for none
RECURSIVE IndexFrom(_, _, _)
IndexFrom(s, sub, i) ==
    IF i + Len(sub) - 1 > Len(s) THEN 0
    ELSE IF SubSeq(s, i, i + Len(sub) - 1) = sub THEN i
    ELSE IndexFrom(s, sub, i + 1)

Index(s, sub) == IndexFrom(s, sub, 1)

\* strings.LastIndex
RECURSIVE LastIndexFrom(_, _, _)
LastIndexFrom(s, sub, i) ==
    IF i < 1 THEN 0
    ELSE IF i + Len(sub) - 1 <= Len(s) /\ SubSeq(s, i, i + Len(sub) - 1) = sub THEN i
    ELSE LastIndexFrom(s, sub, i - 1)

LastIndex(s, sub) == LastIndexFrom(s, sub, Len(s))

\* strings.Contains
Contains(s, sub) == Index(s, sub) # 0

\* strings.Cut
Cut(s, sep) ==
    LET i == Index(s, sep)
    IN  IF i = 0 THEN [before |-> s, after |-> <<>>, found |-> FALSE]
        ELSE [before |-> SubSeq(s, 1, i - 1),
              after |-> SubSeq(s, i + Len(sep), Len(s)),
              found |-> TRUE]

\* splitUserHost that splits at the last @
splitUserHostLast(s) ==
    LET i == LastIndex(s, At)
    IN  IF i = 0 THEN [user |-> <<>>, host |-> s]
        ELSE [user |-> SubSeq(s, 1, i - 1), host |-> SubSeq(s, i + 1, Len(s))]

splitUserHost(s) ==
    IF Contains(s, At)
    THEN LET c == Cut(s, At) IN [user |-> c.before, host |-> c.after]
    ELSE [user |-> <<>>, host |-> s]

ensureLeadingSlash(p) ==
    IF p = <<>> THEN Slash
    ELSE IF ~HasPrefix(p, Slash) THEN Slash \o p
    ELSE p

\* Endpoint{}
ZeroEndpoint == [Transport |-> "", User |-> <<>>, Host |-> <<>>, Port |-> <<>>, Path |-> <<>>]

\* net/url getScheme: the scheme and the rest; no scheme when a character
\* that cannot be in a scheme comes before the first colon
RECURSIVE getScheme(_, _)
getScheme(rawURL, i) ==
    IF i > Len(rawURL) THEN [scheme |-> <<>>, rest |-> rawURL, err |-> Nil]
    ELSE IF IsLetter(rawURL[i]) THEN getScheme(rawURL, i + 1)
    ELSE IF rawURL[i] \in DigitChars \cup {"+", "-", "."}
         THEN IF i = 1 THEN [scheme |-> <<>>, rest |-> rawURL, err |-> Nil]
              ELSE getScheme(rawURL, i + 1)
    ELSE IF rawURL[i] = ":"
         THEN IF i = 1 THEN [scheme |-> <<>>, rest |-> <<>>, err |-> "missing protocol scheme"]
              ELSE [scheme |-> SubSeq(rawURL, 1, i - 1),
                    rest |-> SubSeq(rawURL, i + 1, Len(rawURL)), err |-> Nil]
    ELSE [scheme |-> <<>>, rest |-> rawURL, err |-> Nil]

\* net/url validOptionalPort: empty, or a colon and digits
validOptionalPort(port) ==
    port = <<>> \/ (port[1] = ":" /\ \A i \in 2..Len(port) : port[i] \in DigitChars)

\* net/url parseAuthority, URL.User.Username, URL.Hostname and URL.Port
parseAuthority(authority) ==
    LET i == LastIndex(authority, At)
        hostport == SubSeq(authority, i + 1, Len(authority))
        userinfo == IF i = 0 THEN <<>> ELSE SubSeq(authority, 1, i - 1)
        c == LastIndex(hostport, Colon)
        hasPort == c # 0 /\ validOptionalPort(SubSeq(hostport, c, Len(hostport)))
    IN  [err |-> IF c # 0 /\ ~hasPort THEN "invalid port" ELSE Nil,
         user |-> Cut(userinfo, Colon).before,
         host |-> IF hasPort THEN SubSeq(hostport, 1, c - 1) ELSE hostport,
         port |-> IF hasPort THEN SubSeq(hostport, c + 1, Len(hostport)) ELSE <<>>]

\* net/url Parse
urlParse(rawURL) ==
    LET g == getScheme(rawURL, 1)
        none == [err |-> Nil, user |-> <<>>, host |-> <<>>, port |-> <<>>]
        fail(e) == [err |-> e, Scheme |-> <<>>, User |-> <<>>, Host |-> <<>>,
                    Port |-> <<>>, Path |-> <<>>]
    IN  IF g.err # Nil THEN fail(g.err)
        ELSE LET scheme == ToLower(g.scheme)
                 rest == g.rest
                 seg == Cut(rest, Slash).before
             IN  IF ~HasPrefix(rest, Slash) /\ scheme # <<>>
                 THEN [err |-> Nil, Scheme |-> scheme, User |-> <<>>, Host |-> <<>>,
                       Port |-> <<>>, Path |-> <<>>]
                 ELSE IF ~HasPrefix(rest, Slash) /\ Contains(seg, Colon)
                 THEN fail("first path segment in URL cannot contain colon")
                 ELSE LET hasAuth == /\ HasPrefix(rest, <<"/", "/">>)
                                     /\ (scheme # <<>> \/ ~HasPrefix(rest, <<"/", "/", "/">>))
                          after == SubSeq(rest, 3, Len(rest))
                          k == Index(after, Slash)
                          authority == IF k = 0 THEN after ELSE SubSeq(after, 1, k - 1)
                          a == IF hasAuth THEN parseAuthority(authority) ELSE none
                          path == IF ~hasAuth THEN rest
                                  ELSE IF k = 0 THEN <<>>
                                  ELSE SubSeq(after, k, Len(after))
                      IN  IF a.err # Nil THEN fail(a.err)
                          ELSE [err |-> Nil, Scheme |-> scheme, User |-> a.user,
                                Host |-> a.host, Port |-> a.port, Path |-> path]

\* the strings.ToLower(u.Scheme) switch of ParseEndpoint
schemeTransport(scheme) ==
    LET l == ToLower(scheme)
    IN  IF l = <<"s", "s", "h">> THEN "ssh"
        ELSE IF l = <<"g", "i", "t">> THEN "git"
        ELSE IF l = <<"h", "t", "t", "p">> THEN "http"
        ELSE IF l = <<"h", "t", "t", "p", "s">> THEN "https"
        ELSE ""

\* ParseEndpoint: the endpoint and the error it returns
ParseEndpoint(r) ==
    IF r = <<>> THEN [ep |-> ZeroEndpoint, err |-> "empty endpoint"]
    ELSE IF ~Contains(r, SchemeSep) /\ ~Contains(r, At) /\ ~Contains(r, Colon)
    THEN [ep |-> [ZeroEndpoint EXCEPT !.Transport = "local", !.Path = r], err |-> Nil]
    ELSE IF ~Contains(r, SchemeSep) /\ Contains(r, Colon)
    THEN LET c == Cut(r, Colon)
             uh == splitUserHost(c.before)
         IN  IF ~c.found THEN [ep |-> ZeroEndpoint, err |-> "invalid scp-like syntax"]
             ELSE [ep |-> [Transport |-> "ssh", User |-> uh.user, Host |-> uh.host,
                           Port |-> <<>>, Path |-> ensureLeadingSlash(c.after)],
                   err |-> Nil]
    ELSE LET u == urlParse(r)
         IN  IF u.err # Nil THEN [ep |-> ZeroEndpoint, err |-> u.err]
             ELSE IF schemeTransport(u.Scheme) = ""
             THEN [ep |-> ZeroEndpoint, err |-> "unsupported transport"]
             ELSE [ep |-> [Transport |-> schemeTransport(u.Scheme), User |-> u.User,
                           Host |-> u.Host, Port |-> u.Port,
                           Path |-> ensureLeadingSlash(Clean(u.Path))],
                   err |-> Nil]

\* the longest input that is not written as a URL
MaxLen == 5

\* every string of the characters that decide ParseEndpoint's branch
PlainInputs ==
    UNION {[1..n -> {"a", "@", ":", "/"}] : n \in 0..MaxLen}

\* the schemes, authorities and paths URLs are written from
Schemes ==
    {<<"s", "s", "h">>, <<"S", "S", "H">>, <<"g", "i", "t">>, <<"G", "i", "t">>,
     <<"h", "t", "t", "p">>, <<"h", "t", "t", "p", "s">>, <<"H", "T", "T", "P", "S">>,
     <<"f", "t", "p">>, <<"f", "i", "l", "e">>, <<"g", "i", "t", "+", "s", "s", "h">>}

Authorities ==
    {<<>>, <<"h">>, <<"u", "@", "h">>, <<"h", ":", "2", "2">>, <<"u", "@", "h", ":", "2">>}

UrlPathParts ==
    {<<>>, <<"/">>, <<"/", "a">>, <<"/", "a", "/">>, <<"/", ".", "/", "a">>,
     <<"/", "a", "/", ".", ".", "/", "b">>, <<"/", "/", "a">>, <<"/", ".", ".">>,
     <<"/", "a", "/", "b">>}

EndpointInputs ==
    {[text |-> t, url |-> FALSE, scheme |-> <<>>, authority |-> <<>>, path |-> <<>>] :
        t \in PlainInputs}
    \cup
    {[text |-> sc \o SchemeSep \o au \o pa, url |-> TRUE, scheme |-> sc, authority |-> au,
      path |-> pa] : sc \in Schemes, au \in Authorities, pa \in UrlPathParts}

\* no call yet
NotParsedEndpoint == [called |-> FALSE, ep |-> ZeroEndpoint, err |-> Nil]

\* ep, err := ParseEndpoint(raw)
ParseEndpointCall ==
    /\ ~endpoint.called
    /\ LET r == ParseEndpoint(raw.text)
       IN  endpoint' = [called |-> TRUE, ep |-> r.ep, err |-> r.err]
    /\ UNCHANGED <<raw, reqVars, srvVars, parseVars, execVars, mainVars, cntVars, cmpVars>>

EndpointNext == ParseEndpointCall

(***************************************************************************)
(* cmd/gitsshd: main, setupDemo, ensureKey, ensureAuthorizedFile           *)
(***************************************************************************)
\* the server's variables that main's own steps leave alone
srvRest == <<GracefulTimeout, ret, authorized, spc, listener, errCh, auth,
             active, cond, mu, wpc, ctxSet, ctxTimeout, elapsed>>

\* main ends with os.Exit(1) after a failed step of setupDemo
setupError ==
    /\ mpc' = "exited" /\ mexit' = 1
    /\ UNCHANGED <<files, KeyFile>>

\* setupDemo: os.MkdirAll(repoRoot, 0o755)
SetupRepoRoot ==
    /\ mpc = "root"
    /\ \/ /\ files' = [files EXCEPT !.root = TRUE]
          /\ mpc' = "sshdir" /\ UNCHANGED <<mexit, KeyFile>>
       \/ ~files.root /\ setupError
    /\ UNCHANGED <<firstRun, lpc, ctxDone, sess, srvRest, reqVars, parseVars, execVars, epVars, cntVars, cmpVars>>

\* setupDemo: os.MkdirAll(sshDir, 0o755)
SetupSshDir ==
    /\ mpc = "sshdir"
    /\ \/ /\ files' = [files EXCEPT !.sshDir = TRUE]
          /\ mpc' = "key" /\ UNCHANGED <<mexit, KeyFile>>
       \/ ~files.sshDir /\ setupError
    /\ UNCHANGED <<firstRun, lpc, ctxDone, sess, srvRest, reqVars, parseVars, execVars, epVars, cntVars, cmpVars>>

\* ensureKey: the host key is there, or ssh-keygen makes it, or fails
ensureKey ==
    /\ mpc = "key"
    /\ IF files.hostKey
       THEN mpc' = "authfile" /\ UNCHANGED <<files, mexit, KeyFile>>
       ELSE \/ /\ files' = [files EXCEPT !.hostKey = TRUE]
               /\ mpc' = "authfile" /\ UNCHANGED <<mexit, KeyFile>>
            \/ setupError
    /\ UNCHANGED <<firstRun, lpc, ctxDone, sess, srvRest, reqVars, parseVars, execVars, epVars, cntVars, cmpVars>>

\* ensureAuthorizedFile: the file is there, or os.WriteFile(path, []byte{})
\* makes it empty, or fails
ensureAuthorizedFile ==
    /\ mpc = "authfile"
    /\ IF files.authKeys
       THEN mpc' = "serve" /\ UNCHANGED <<files, mexit, KeyFile>>
       ELSE \/ /\ files' = [files EXCEPT !.authKeys = TRUE]
               /\ KeyFile' = <<>>
               /\ mpc' = "serve" /\ UNCHANGED mexit
            \/ setupError
    /\ UNCHANGED <<firstRun, lpc, ctxDone, sess, srvRest, reqVars, parseVars, execVars, epVars, cntVars, cmpVars>>

\* main: the server value, signal.NotifyContext, the three lines printed,
\* and the call of server.ListenAndServe(ctx)
mainServe ==
    /\ mpc = "serve"
    /\ mpc' = "running"
    /\ lpc' = "start"
    /\ ctxDone' = FALSE
    /\ sess' = [s \in Sessions |-> [st |-> "none", pre |-> FALSE]]
    /\ UNCHANGED <<files, firstRun, mexit, KeyFile, srvRest, reqVars, parseVars, execVars, epVars, cntVars, cmpVars>>

\* main after server.ListenAndServe: os.Exit(1) on an error, else return
mainExit ==
    /\ mpc = "running" /\ lpc = "returned"
    /\ mpc' = "exited"
    /\ mexit' = IF ret # Nil THEN 1 ELSE 0
    /\ UNCHANGED <<files, firstRun, KeyFile, lpc, ctxDone, sess, srvRest, reqVars, parseVars,
                   execVars, epVars, cntVars, cmpVars>>

MainNext ==
    \/ SetupRepoRoot
    \/ SetupSshDir
    \/ ensureKey
    \/ ensureAuthorizedFile
    \/ mainServe
    \/ mainExit
    \/ SrvNext

(***************************************************************************)
(* Specifications                                                          *)
(***************************************************************************)
\* the request handlers at rest
ReqOff ==
    /\ RepoRoot = <<"/", "r">> /\ rq = NoRequest /\ pc = "off"
    /\ loc = NoLocals /\ checked = {} /\ out = <<>>

\* the state of a server on which ListenAndServe is about to be called
SrvStart ==
    /\ lpc = "start" /\ ret = "none" /\ authorized = <<>> /\ spc = "idle"
    /\ listener = "none" /\ errCh = <<>> /\ ctxDone = FALSE
    /\ sess = [s \in Sessions |-> [st |-> "none", pre |-> FALSE]]
    /\ auth = [key |-> <<>>, ok |-> FALSE]
    /\ active = 0 /\ cond = FALSE /\ mu = "free" /\ wpc = "idle"
    /\ ctxSet = FALSE /\ ctxTimeout = 0 /\ elapsed = 0

\* no server
SrvOff ==
    /\ KeyFile = <<>> /\ GracefulTimeout = 0
    /\ lpc = "off" /\ ret = "none" /\ authorized = <<>> /\ spc = "idle"
    /\ listener = "none" /\ errCh = <<>> /\ ctxDone = TRUE
    /\ sess = [s \in Sessions |-> [st |-> "off", pre |-> FALSE]]
    /\ auth = [key |-> <<>>, ok |-> FALSE]
    /\ active = 0 /\ cond = FALSE /\ mu = "free" /\ wpc = "idle"
    /\ ctxSet = FALSE /\ ctxTimeout = 0 /\ elapsed = 0

ParseOff == cmd = [text |-> <<>>, fields |-> <<>>] /\ parsed = NotParsed

\* no call of Serve
ExecOff ==
    /\ ereq = ZeroRequest /\ estdin = "nil" /\ epc = "off" /\ eret = Nil
    /\ ectx = FALSE /\ proc = "none" /\ copier = "none" /\ chunks = 0

\* no call of ParseEndpoint
EpOff ==
    /\ raw = [text |-> <<>>, url |-> FALSE, scheme |-> <<>>, authority |-> <<>>, path |-> <<>>]
    /\ endpoint = NotParsedEndpoint

\* no gitsshd
MainOff ==
    /\ mpc = "off" /\ firstRun = FALSE /\ mexit = 0
    /\ files = [root |-> FALSE, sshDir |-> FALSE, hostKey |-> FALSE, authKeys |-> FALSE]

(***************************************************************************)
(* The confinement of the two transports, side by side                     *)
(***************************************************************************)
\* no confinement has run yet
NotConfined == [full |-> <<>>, err |-> "pending"]

\* the paths clients supply: as the SSH command gives them, and after the
\* leading '/' every URL path has
ConfinedInputs == ClientPaths \cup {Slash \o p : p \in ClientPaths}

\* the HTTP handlers' confinement: repoPathFromURL on the URL path before the
\* route suffix, then the join and ensureWithinRoot of runStatelessRPC
httpConfine(root, prefix) ==
    LET u == repoPathFromURL(prefix)
    IN  IF u.err # Nil THEN [full |-> <<>>, err |-> u.err]
        ELSE LET full == rpcRepoFull(root, u.path)
                 e == ensureWithinRoot(root, full)
             IN  IF e # Nil THEN [full |-> <<>>, err |-> e]
                 ELSE [full |-> full, err |-> Nil]

\* repoFull, err := s.resolveRepoPath(req.RepoPath)
ConfineSsh ==
    /\ croot # <<>> /\ sshConf = NotConfined
    /\ sshConf' = resolveRepoPath(croot, cpath)
    /\ UNCHANGED <<croot, cpath, httpConf, reqVars, srvVars, parseVars, execVars, epVars, mainVars, cntVars>>

\* repoPath, err := s.repoPathFromURL(...); s.runStatelessRPC(..., repoPath, ...)
ConfineHttp ==
    /\ croot # <<>> /\ httpConf = NotConfined
    /\ httpConf' = httpConfine(croot, cpath)
    /\ UNCHANGED <<croot, cpath, sshConf, reqVars, srvVars, parseVars, execVars, epVars, mainVars, cntVars>>

ConfineNext == ConfineSsh \/ ConfineHttp

\* no session has ended
CntOff == lastExit = ""

\* no path is being confined
CmpOff == croot = <<>> /\ cpath = <<>> /\ sshConf = NotConfined /\ httpConf = NotConfined

ExtOff == ExecOff /\ EpOff /\ MainOff /\ CntOff /\ CmpOff

\* requests through the two transport handlers, for each repository root
Init == ReqInit /\ SrvOff /\ ParseOff /\ ExtOff

Spec == Init /\ [][ReqNext]_vars

\* the graceful timeouts configured: unset, negative, two seconds
Timeouts == {0, -1, 2}

\* a server with one authorized key, or an empty authorized-keys file
SrvInit ==
    /\ KeyFile \in {<<[kind |-> "key", blob |-> <<1>>, comment |-> "alice"]>>, <<>>}
    /\ GracefulTimeout \in Timeouts
    /\ SrvStart /\ ReqOff /\ ParseOff /\ ExtOff

SpecSrv == SrvInit /\ [][SrvNext]_vars

\* the same server, with the goroutine inside sessionCounter.wait scheduled
\* whenever it can take a step
SpecSrvFair == SrvInit /\ [][SrvNext]_vars /\ WF_vars(Wait)

\* a server for each authorized-keys file
AuthInit ==
    /\ KeyFile \in KeyFiles
    /\ GracefulTimeout = 1
    /\ SrvStart /\ ReqOff /\ ParseOff /\ ExtOff

SpecAuth == AuthInit /\ [][SrvNext]_vars

ParseInit ==
    /\ cmd \in Commands /\ parsed = NotParsed
    /\ ReqOff /\ SrvOff /\ ExtOff

SpecParse == ParseInit /\ [][ParseNext]_vars

\* a call of Serve for each request and each kind of stdin
ExecInit ==
    /\ ereq \in ExecRequests /\ estdin \in {"nil", "reader"}
    /\ epc = "call" /\ eret = Nil /\ ectx = FALSE
    /\ proc = "none" /\ copier = "none" /\ chunks = 0
    /\ ReqOff /\ SrvOff /\ ParseOff /\ EpOff /\ MainOff /\ CntOff /\ CmpOff

SpecExec == ExecInit /\ [][ExecNext]_vars

\* a call of ParseEndpoint for each input
EndpointInit ==
    /\ raw \in EndpointInputs /\ endpoint = NotParsedEndpoint
    /\ ReqOff /\ SrvOff /\ ParseOff /\ ExecOff /\ MainOff /\ CntOff /\ CmpOff

SpecEndpoint == EndpointInit /\ [][EndpointNext]_vars

\* gitsshd started in a directory where nothing of the demo exists yet, or
\* where an earlier run left its files and a key was added since
MainInit ==
    /\ firstRun \in BOOLEAN
    /\ files = [root |-> ~firstRun, sshDir |-> ~firstRun, hostKey |-> ~firstRun, authKeys |-> ~firstRun]
    /\ KeyFile = IF firstRun THEN <<>>
                 ELSE <<[kind |-> "key", blob |-> <<1>>, comment |-> "alice"]>>
    /\ mpc = "root" /\ mexit = 0
    /\ GracefulTimeout = 0
    /\ lpc = "off" /\ ret = "none" /\ authorized = <<>> /\ spc = "idle"
    /\ listener = "none" /\ errCh = <<>> /\ ctxDone = TRUE
    /\ sess = [s \in Sessions |-> [st |-> "off", pre |-> FALSE]]
    /\ auth = [key |-> <<>>, ok |-> FALSE]
    /\ active = 0 /\ cond = FALSE /\ mu = "free" /\ wpc = "idle"
    /\ ctxSet = FALSE /\ ctxTimeout = 0 /\ elapsed = 0
    /\ ReqOff /\ ParseOff /\ ExecOff /\ EpOff /\ CntOff /\ CmpOff

SpecMain == MainInit /\ [][MainNext]_vars


\* the SSH and the HTTP confinement of each client path under each root
ConfineInit ==
    /\ croot \in Roots /\ cpath \in ConfinedInputs
    /\ sshConf = NotConfined /\ httpConf = NotConfined
    /\ ReqOff /\ SrvOff /\ ParseOff /\ ExecOff /\ EpOff /\ MainOff /\ CntOff

SpecConfine == ConfineInit /\ [][ConfineNext]_vars

(***************************************************************************)
(* Properties of the request handlers                                      *)
(***************************************************************************)
\* the positions in o of the events of kind e
Events(o, e) == {i \in 1..Len(o) : o[i].ev = e}

\* the repository path a spawned subprocess was given: its last argument
SpawnPath(e) == e.b[Len(e.b)]

\* full is root or lies beneath it
Within(root, full) ==
    full = root \/ HasPrefix(full, IF root = Slash THEN Slash ELSE root \o Slash)

AllChecks == {"service", "nonempty", "confined"}

\* the status line of the response, 0 while none was sent
StatusOf(o) == IF Events(o, "status") = {} THEN 0
               ELSE o[CHOOSE i \in Events(o, "status") : \A j \in Events(o, "status") : i <= j].a

\* the route suffix ServeHTTP's documentation lists for the URL path, if any
RouteOf(path) ==
    IF HasSuffix(path, InfoRefsSuffix) THEN InfoRefsSuffix
    ELSE IF HasSuffix(path, Slash \o ServiceUploadPack) THEN Slash \o ServiceUploadPack
    ELSE IF HasSuffix(path, Slash \o ServiceReceivePack) THEN Slash \o ServiceReceivePack
    ELSE <<>>

\* the repository part of a routed URL path names no repository: with one
\* leading and one trailing slash stripped it cleans to "."
EmptyRepoPath(path) ==
    Clean(TrimSuffix(TrimPrefix(TrimSuffix(path, RouteOf(path)), Slash), Slash)) = Dot

\* C1: on both transports a subprocess is only ever given a path whose
\* cleaned form is the cleaned root or starts with root + separator, and a
\* client path that leaves the root directory (../../etc/passwd, a sibling
\* such as <root>-evil/x) is rejected: the directory the subprocess is given
\* is the root directory or lies beneath it.
C1_PathConfinement ==
    \A i \in Events(out, "spawn") :
        /\ Within(Clean(RepoRoot), Clean(SpawnPath(out[i])))
        /\ Within(Abs(RepoRoot), Abs(SpawnPath(out[i])))

\* C2: no os.Stat and no subprocess unless the request's service was found
\* supported, its repository path non-empty and the path confined, in an
\* earlier step of the same request; the path checked and spawned is the
\* confined one.
C2_ValidateBeforeSpawn ==
    (Events(out, "stat") \cup Events(out, "spawn") # {}) =>
        /\ AllChecks \subseteq checked
        /\ IsSupported(loc.svc)
        /\ IF rq.transport = "ssh"
           THEN /\ Len(Fields(rq.rawCmd)) >= 2
                /\ loc.svc = Fields(rq.rawCmd)[1]
                /\ TrimQuotes(Fields(rq.rawCmd)[2]) # <<>>
           ELSE /\ RouteOf(rq.path) # <<>>
                /\ ~EmptyRepoPath(rq.path)
                /\ RouteOf(rq.path) = InfoRefsSuffix => loc.svc = rq.query
                /\ RouteOf(rq.path) # InfoRefsSuffix => Slash \o loc.svc = RouteOf(rq.path)
        /\ Within(Clean(RepoRoot), Clean(loc.repoFull))
        /\ \A i \in Events(out, "stat") : out[i].a = loc.repoFull
        /\ \A i \in Events(out, "spawn") :
              /\ SpawnPath(out[i]) = loc.repoFull
              /\ out[i].a = loc.svc
              /\ \E j \in Events(out, "stat") : j < i

C2_Witness == rq.transport = "http" /\ Events(out, "spawn") # {} /\ pc = "closed"

\* C6: a finished SSH session has exactly one exit status; it is 0 exactly
\* when the executor ran and returned no error; an exit with status 1 comes
\* after a diagnostic line on the session's error stream, on each failure
\* path.
C6_SshOutcome ==
    (rq.transport = "ssh") =>
        /\ Cardinality(Events(out, "exit")) <= 1
        /\ pc = "closed" =>
              /\ Cardinality(Events(out, "exit")) = 1
              /\ out[Len(out)].ev = "exit"
              /\ out[Len(out)].a \in {0, 1}
              /\ out[Len(out)].a = 0 <=>
                    (Events(out, "spawn") # {} /\ \E i \in Events(out, "served") : out[i].a = Nil)
              /\ out[Len(out)].a = 1 =>
                    /\ Len(out) >= 2 /\ out[Len(out) - 1].ev = "stderr"
                    /\ ParseSSHCommand(rq.rawCmd).err # Nil =>
                          out[Len(out) - 1].a = "invalid command"
                    /\ (ParseSSHCommand(rq.rawCmd).err = Nil /\ Events(out, "stat") = {}) =>
                          out[Len(out) - 1].a = "invalid repo path"
                    /\ (Events(out, "stat") # {} /\ Events(out, "served") = {}) =>
                          out[Len(out) - 1].a = "repository not found"
                    /\ Events(out, "served") # {} =>
                          out[Len(out) - 1].a = "git service failed"

C6_Witness ==
    /\ rq.transport = "ssh" /\ pc = "closed"
    /\ out[Len(out)].ev = "exit" /\ out[Len(out)].a = 1
    /\ Events(out, "spawn") # {}

\* C7: an HTTP request that has been answered got 404 when its URL path
\* ends in no route suffix, 405 when the route is matched with the wrong
\* method, 400 when the service parameter of /info/refs is unsupported or
\* the repository path is empty; in each case the status precedes every
\* body byte and no subprocess is spawned.
C7_HttpStatus ==
    (rq.transport = "http" /\ pc = "closed") =>
        LET route == RouteOf(rq.path)
            wrongMethod == rq.method # (IF route = InfoRefsSuffix THEN "GET" ELSE "POST")
            malformed == \/ route = InfoRefsSuffix /\ ~IsSupported(rq.query)
                         \/ EmptyRepoPath(rq.path)
            early == /\ out[1].ev = "status"
                     /\ Events(out, "body") = {}
                     /\ Events(out, "spawn") = {}
                     /\ Events(out, "stat") = {}
        IN  /\ route = <<>> => StatusOf(out) = 404 /\ early
            /\ (route # <<>> /\ wrongMethod) => StatusOf(out) = 405 /\ early
            /\ (route # <<>> /\ ~wrongMethod /\ malformed) => StatusOf(out) = 400 /\ early

C7_Witness ==
    /\ rq.transport = "http" /\ pc = "closed"
    /\ RouteOf(rq.path) = InfoRefsSuffix /\ rq.method = "GET"
    /\ IsSupported(rq.query) /\ EmptyRepoPath(rq.path)
    /\ StatusOf(out) = 400

\* C8: a GET .../info/refs whose repository path escapes the root gets none
\* of the advertisement (no advertisement Content-Type, no pkt-line, no
\* flush marker) and an HTTP error status.
C8_ConfinedBeforeAdvertisement ==
    (/\ rq.transport = "http" /\ rq.method = "GET"
     /\ RouteOf(rq.path) = InfoRefsSuffix
     /\ ensureWithinRoot(RepoRoot,
            rpcRepoFull(RepoRoot, pathClean(TrimSuffix(rq.path, InfoRefsSuffix)))) # Nil) =>
        /\ Events(out, "body") = {}
        /\ Events(out, "header") = {}
        /\ pc = "closed" => StatusOf(out) >= 400

(***************************************************************************)
(* Properties of the SSH server and of ParseSSHCommand                     *)
(***************************************************************************)
\* the timeout the drain wait is to have, in seconds
GraceSeconds == IF GracefulTimeout > 0 THEN GracefulTimeout ELSE 10

\* a session counted before the shutdown signal is still inside its handler
PreSignalSessionActive == \E s \in Sessions : sess[s].st = "in" /\ sess[s].pre

\* the parts of the shutdown ordering that are about one state: the drain
\* wait starts only with the listener closed, waitCtx has the graceful
\* timeout or its default, and after the signal ListenAndServe has not
\* returned while a session counted before the signal is active and the
\* timeout has not elapsed
ShutdownOrderInv ==
    /\ wpc # "idle" => listener = "closed"
    /\ ctxSet => ctxTimeout = GraceSeconds
    /\ (lpc = "returned" /\ ctxDone /\ PreSignalSessionActive) =>
           (ctxSet /\ elapsed >= GraceSeconds)

\* C3: once waitCtx's deadline has expired, wait is not stuck: it has
\* returned or its next step can be taken, without any further add call.
C3_WaitRespectsTimeout ==
    (lpc = "wait" /\ wpc # "done" /\ Expired) => ENABLED Wait

C5_WaitReturns ==
    [][(wpc # "done" /\ wpc' = "done") => (active' = 0 \/ Expired')]_vars

C5_Witness ==
    /\ wpc = "done" /\ ~Expired /\ active = 0
    /\ \A s \in Sessions : sess[s].st = "left"

\* C9: ParseSSHCommand returns a request exactly when the command has at
\* least two fields, the first is git-upload-pack or git-receive-pack and
\* the second is non-empty once its surrounding quotes are stripped; the
\* request then has these two as service and path; otherwise it returns an
\* error and the zero request.
C9_ParseSSHCommand ==
    parsed.called =>
        LET fs == cmd.fields
            ok == /\ Len(fs) >= 2
                  /\ fs[1] \in {ServiceUploadPack, ServiceReceivePack}
                  /\ TrimQuotes(fs[2]) # <<>>
        IN  /\ parsed.err = Nil <=> ok
            /\ ok => parsed.req = [Service |-> fs[1], RepoPath |-> TrimQuotes(fs[2])]
            /\ ~ok => parsed.req = ZeroRequest

C9_Witness ==
    /\ parsed.called /\ parsed.err = Nil
    /\ Len(cmd.fields) = 3
    /\ cmd.fields[2] = <<"'", "/", "a", "'">>
    /\ parsed.req.RepoPath = <<"/", "a">>

\* the wire encodings of the keys in the authorized-keys file
FileKeys == {KeyFile[i].blob : i \in {j \in 1..Len(KeyFile) : KeyFile[j].kind = "key"}}

\* C10: the public-key callback accepts a key exactly when its wire encoding
\* is that of a key of the authorized-keys file; with no key in the file
\* ListenAndServe returns an error, the listener is never started and no
\* session handler is called.
C10_AuthAndStartup ==
    /\ auth.key # <<>> => (auth.ok <=> auth.key \in FileKeys)
    /\ \A s \in Sessions : sess[s].st \in {"invoked", "in", "left"} => FileKeys # {}
    /\ FileKeys = {} =>
          /\ listener = "none" /\ spc = "idle"
          /\ lpc \in {"start", "returned"}
          /\ lpc = "returned" => ret = "load authorized keys"
          /\ \A s \in Sessions : sess[s].st = "none"

C10_Witness ==
    /\ \E s \in Sessions : sess[s].st = "rejected"
    /\ \E s \in Sessions : sess[s].st = "in"
    /\ Len(KeyFile) = 2

(***************************************************************************)
(* Properties of ServiceExecutor.Serve                                     *)
(***************************************************************************)
\* C11: with the context cancelled while the subprocess runs, Serve is not
\* stuck inside cmd.Run: it, or the runtime under it, can take a step
\* towards its return without the input stream delivering data or its end.
C11_CancelReturns ==
    (epc = "wait" /\ ectx) => ENABLED ServeStep

(***************************************************************************)
(* Properties of the ref advertisement                                     *)
(***************************************************************************)
\* the first bytes of an advertisement, as a client reads them
AdvertisedUploadPack ==
    <<"0", "0", "1", "e", "#", " ", "s", "e", "r", "v", "i", "c", "e", "=", "g", "i", "t", "-", "u", "p", "l", "o", "a", "d", "-", "p", "a", "c", "k", "\n">>
AdvertisedReceivePack ==
    <<"0", "0", "1", "f", "#", " ", "s", "e", "r", "v", "i", "c", "e", "=", "g", "i", "t", "-", "r", "e", "c", "e", "i", "v", "e", "-", "p", "a", "c", "k", "\n">>

\* the body writes of o, in order
BodyWrites(o) == SelectSeq(o, LAMBDA e : e.ev = "body")

\* C12: the body of an accepted GET .../info/refs?service=<svc> begins with
\* the pkt-line "001e# service=git-upload-pack\n" (or 001f and
\* git-receive-pack), then "0000"; both are written, and nothing else, before
\* the subprocess is started, and the subprocess has no input stream.
C12_AdvertisementFraming ==
    (rq.transport = "http" /\ rq.method = "GET" /\ RouteOf(rq.path) = InfoRefsSuffix) =>
        LET first == IF rq.query = ServiceUploadPack THEN AdvertisedUploadPack
                     ELSE AdvertisedReceivePack
            w == BodyWrites(out)
        IN  /\ Len(w) <= 2
            /\ Len(w) >= 1 => IsSupported(rq.query) /\ w[1].a = first
            /\ Len(w) >= 2 => w[2].a = <<"0", "0", "0", "0">>
            /\ \A i \in Events(out, "spawn") :
                  /\ Len(BodyWrites(SubSeq(out, 1, i - 1))) = 2
                  /\ \E j \in Events(out, "flush") : j < i
                  /\ out[i].c = "nil"

C12_Witness ==
    /\ rq.transport = "http" /\ rq.method = "GET"
    /\ rq.query = ServiceReceivePack
    /\ Events(out, "spawn") # {}
    /\ pc = "closed"

(***************************************************************************)
(* Properties of ParseEndpoint                                             *)
(***************************************************************************)
\* the positions of character c in t
Positions(t, c) == {i \in 1..Len(t) : t[i] = c}

\* the least element of a non-empty set of numbers
Least(S) == CHOOSE x \in S : \A y \in S : x <= y

\* t contains "://"
HasSchemeSep(t) ==
    \E i \in 1..(Len(t) - 2) : t[i] = ":" /\ t[i + 1] = "/" /\ t[i + 2] = "/"

\* C13: for an input without "://": the empty input gives the error "empty
\* endpoint"; a non-empty input with neither @ nor : gives transport local
\* and the input as path; an input with a : gives transport ssh, the part
\* before the first : split at its first @ into user and host (no @: empty
\* user), and as path the part after the first :, with a / put before it
\* unless it begins with one.
C13_ParseEndpointPlain ==
    (endpoint.called /\ ~HasSchemeSep(raw.text)) =>
        LET t == raw.text
            colons == Positions(t, ":")
            ats == Positions(t, "@")
            e == endpoint.ep
        IN  /\ t = <<>> => endpoint.err = "empty endpoint" /\ e = ZeroEndpoint
            /\ (t # <<>> /\ colons = {} /\ ats = {}) =>
                  /\ endpoint.err = Nil
                  /\ e = [ZeroEndpoint EXCEPT !.Transport = "local", !.Path = t]
            /\ colons # {} =>
                  LET c == Least(colons)
                      right == SubSeq(t, c + 1, Len(t))
                      la == {i \in ats : i < c}
                  IN  /\ endpoint.err = Nil
                      /\ e.Transport = "ssh"
                      /\ la = {} => e.User = <<>> /\ e.Host = SubSeq(t, 1, c - 1)
                      /\ la # {} => /\ e.User = SubSeq(t, 1, Least(la) - 1)
                                    /\ e.Host = SubSeq(t, Least(la) + 1, c - 1)
                      /\ e.Path[1] = "/"
                      /\ e.Path = IF right # <<>> /\ right[1] = "/" THEN right
                                  ELSE <<"/">> \o right

C13_Witness ==
    /\ endpoint.called
    /\ raw.text = <<"a", "@", "a", ":", "a">>
    /\ endpoint.ep.Transport = "ssh" /\ endpoint.ep.User = <<"a">>
    /\ endpoint.ep.Path = <<"/", "a">>

\* the transport a scheme stands for, "" for none
TransportOfScheme(sc) ==
    IF sc \in {<<"s", "s", "h">>, <<"S", "S", "H">>} THEN "ssh"
    ELSE IF sc \in {<<"g", "i", "t">>, <<"G", "i", "t">>} THEN "git"
    ELSE IF sc = <<"h", "t", "t", "p">> THEN "http"
    ELSE IF sc \in {<<"h", "t", "t", "p", "s">>, <<"H", "T", "T", "P", "S">>} THEN "https"
    ELSE ""

\* p begins with / and has no empty, . or .. element
CleanedRooted(p) ==
    /\ p # <<>> /\ p[1] = "/"
    /\ p = <<"/">> \/ \A i \in 1..Len(SplitSlash(Tail(p))) :
                          SplitSlash(Tail(p))[i] \notin {<<>>, Dot, DotDot}

\* C14: a URL with scheme ssh, git, http or https in any case gives the
\* transport of the scheme and a path that begins with / and is cleaned, also
\* when the URL has no path; a URL with another scheme gives the error
\* "unsupported transport".
C14_ParseEndpointUrl ==
    (endpoint.called /\ raw.url) =>
        IF TransportOfScheme(raw.scheme) # ""
        THEN /\ endpoint.err = Nil
             /\ endpoint.ep.Transport = TransportOfScheme(raw.scheme)
             /\ CleanedRooted(endpoint.ep.Path)
        ELSE endpoint.err = "unsupported transport" /\ endpoint.ep = ZeroEndpoint

(***************************************************************************)
(* Properties of gitsshd                                                   *)
(***************************************************************************)
\* C15: on a first run (no authorized_keys file at the start) that got
\* through setupDemo, ListenAndServe does not return before it has started
\* the serving goroutine: it goes on to listen instead of returning an error.
C15_FirstRunServes ==
    (firstRun /\ lpc = "returned") => spc # "idle"

(***************************************************************************)
(* Properties of the session counter                                       *)
(***************************************************************************)
\* the sessions between the add(1) and the deferred add(-1) of their handler
Counted == {s \in Sessions : sess[s].st = "in"}

\* C16: sessionCounter.active is the number of sessions inside the wrapped
\* handler (counted in, not yet counted out), is never negative, and is zero
\* when every session whose handler was called has left it, by whichever
\* path the last one returned.
C16_CounterInvariant ==
    /\ active = Cardinality(Counted)
    /\ active >= 0
    /\ (\A s \in Sessions : sess[s].st \notin {"invoked", "in"}) => active = 0

C16_Witness ==
    /\ \A s \in Sessions : sess[s].st = "left"
    /\ lastExit = "missing repository"
    /\ active = 0

(***************************************************************************)
(* Properties of the order of a session's steps                            *)
(***************************************************************************)
\* the kinds of the events of o, in order
Kinds(o) == [i \in 1..Len(o) |-> o[i].ev]

\* C17: an SSH session parses its command, then confines the path, then
\* looks for the repository on disk, then runs the executor, and ends at the
\* first of these that fails, with that step's message and status 1; a
\* repository that is missing ends the session with "repository not found"
\* and no subprocess.
C17_SessionStepOrder ==
    (rq.transport = "ssh") =>
        LET p == ParseSSHCommand(rq.rawCmd)
            r == resolveRepoPath(RepoRoot, p.req.RepoPath)
            k == Kinds(out)
        IN  /\ pc = "ssh_parse" => out = <<>>
            /\ pc = "ssh_resolve" => out = <<>> /\ p.err = Nil
            /\ pc = "ssh_stat" => out = <<>> /\ p.err = Nil /\ r.err = Nil
            /\ pc = "ssh_serve" => k = <<"stat">> /\ p.err = Nil /\ r.err = Nil
            /\ pc = "closed" =>
                  IF p.err # Nil
                  THEN k = <<"stderr", "exit">> /\ out[1].a = "invalid command"
                  ELSE IF r.err # Nil
                  THEN k = <<"stderr", "exit">> /\ out[1].a = "invalid repo path"
                  ELSE /\ out[1].ev = "stat" /\ out[1].a = r.full
                       /\ \/ /\ k = <<"stat", "stderr", "exit">>
                             /\ out[2].a = "repository not found" /\ out[3].a = 1
                          \/ k = <<"stat", "spawn", "served", "exit">>
                          \/ /\ k = <<"stat", "spawn", "served", "stderr", "exit">>
                             /\ out[4].a = "git service failed"

C17_Witness ==
    /\ rq.transport = "ssh" /\ pc = "closed"
    /\ rq.rawCmd = ServiceReceivePack \o <<" ", "'", "r", "'">>
    /\ Kinds(out) = <<"stat", "stderr", "exit">>
    /\ out[2].a = "repository not found" /\ out[3].a = 1

(***************************************************************************)
(* Properties of the two confinements side by side                         *)
(***************************************************************************)
\* C18: for every root and every client path, the SSH confinement and the
\* HTTP confinement both accept or both reject, and when they accept they
\* resolve to the same full path.
C18_SameConfinement ==
    (sshConf # NotConfined /\ httpConf # NotConfined) =>
        /\ (sshConf.err = Nil) <=> (httpConf.err = Nil)
        /\ sshConf.err = Nil => sshConf.full = httpConf.full

(***************************************************************************)
(* Properties of the subprocess arguments                                  *)
(***************************************************************************)
\* C19: a subprocess spawned for an SSH session has exactly one argument,
\* the repository path the session's confinement resolved, and so neither
\* --stateless-rpc nor --advertise-refs; a subprocess spawned for an HTTP
\* request has --stateless-rpc first, --advertise-refs second exactly when
\* the request is GET .../info/refs, and last the repository path the
\* request's confinement resolved.
C19_SubprocessArguments ==
    \A i \in Events(out, "spawn") :
        LET args == out[i].b
        IN  IF rq.transport = "ssh"
            THEN /\ Len(args) = 1
                 /\ LET r == resolveRepoPath(RepoRoot, ParseSSHCommand(rq.rawCmd).req.RepoPath)
                    IN  r.err = Nil /\ args[1] = r.full
            ELSE LET adv == rq.method = "GET" /\ HasSuffix(rq.path, InfoRefsSuffix)
                     conf == httpConfine(RepoRoot, TrimSuffix(rq.path, RouteOf(rq.path)))
                 IN  /\ Len(args) = IF adv THEN 3 ELSE 2
                     /\ args[1] = "--stateless-rpc"
                     /\ adv => args[2] = "--advertise-refs"
                     /\ conf.err = Nil /\ args[Len(args)] = conf.full

C19_Witness ==
    /\ rq.transport = "http" /\ rq.method = "GET" /\ pc = "closed"
    /\ \E i \in Events(out, "spawn") :
          /\ Len(out[i].b) = 3 /\ out[i].b[2] = "--advertise-refs"
          /\ out[i].b[3] = <<"/", "r", "/", "r">>

(***************************************************************************)
(* Properties of the request handed to the executor                        *)
(***************************************************************************)
\* filepath.IsAbs where the separator is '/'
IsAbs(p) == p # <<>> /\ Head(p) = "/"

\* C20: the ServiceRequest the SSH handler hands to the executor carries an
\* absolute repository path, whatever the configured root, a relative root
\* included.
C20_AbsoluteRepoPath ==
    (rq.transport = "ssh") =>
        /\ pc = "ssh_serve" => IsAbs(loc.repoFull)
        /\ \A i \in Events(out, "spawn") : IsAbs(SpawnPath(out[i]))

(***************************************************************************)
(* Properties of the drain counter's wakeups                               *)
(***************************************************************************)
\* no session is inside the wrapped handler or about to enter it
SessionsEnded == \A s \in Sessions : sess[s].st \notin {"invoked", "in"}

\* C21: once the drain wait has been called and every session has ended,
\* sessionCounter.wait returns, however the calls of add and the steps of
\* wait were interleaved, the first call of wait (which creates the
\* condition variable) against the last add(-1) included.
C21_NoLostWakeup == (lpc = "wait" /\ SessionsEnded) ~> (wpc = "done")

\* wait was parked and the last session's add(-1) has woken it before the
\* deadline
C21_Witness ==
    /\ lpc = "wait" /\ wpc = "errcheck" /\ ~Expired
    /\ active = 0 /\ SessionsEnded
    /\ \E s \in Sessions : sess[s].st = "left"

(***************************************************************************)
(* Properties of requests for the repository root itself                   *)
(***************************************************************************)
\* the client's path, joined onto the root and cleaned, is the root: "", "/",
\* "." or a path whose elements cancel out
CleansToRoot(p) == Join(RepoRoot, p) = Clean(RepoRoot)

\* C22: the repository root itself is never served: no subprocess is given
\* the root directory, and a request whose client path cleans to the root
\* reaches no subprocess; the SSH session then exits with status 1 and the
\* HTTP request, its method and service being in order, gets status 400.
C22_RootNeverServed ==
    /\ \A i \in Events(out, "spawn") : Clean(SpawnPath(out[i])) # Clean(RepoRoot)
    /\ (rq.transport = "ssh" /\ ParseSSHCommand(rq.rawCmd).err = Nil
          /\ CleansToRoot(ParseSSHCommand(rq.rawCmd).req.RepoPath)) =>
            /\ Events(out, "spawn") = {}
            /\ pc = "closed" => out = sshFail(<<>>, "invalid repo path")
    /\ (rq.transport = "http" /\ RouteOf(rq.path) # <<>>
          /\ CleansToRoot(TrimSuffix(rq.path, RouteOf(rq.path)))) =>
            /\ Events(out, "spawn") = {}
            /\ (/\ pc = "closed"
                /\ rq.method = (IF RouteOf(rq.path) = InfoRefsSuffix THEN "GET" ELSE "POST")
                /\ RouteOf(rq.path) = InfoRefsSuffix => parseServiceParam(rq.query).err = Nil)
                  => StatusOf(out) = 400

====
